---- MODULE Spec2Model ----
(***************************************************************************)
(* Verification model of the PyRates compile-and-execute engine.           *)
(*                                                                         *)
(*   SpecRun    NumpyBackend.run / compile / _run_inp / _run_no_inp /      *)
(*              layer_run (pyrates/backend/backend_wrapper.py)             *)
(*   SpecSched  CircuitIR.compile / _collect_op_layers / sort_equations    *)
(*              (pyrates/ir/circuit.py)                                    *)
(*   SpecParse  parse_equations / ExpressionParser.parse_expr / parse /    *)
(*              _update_lhs (pyrates/backend/parser.py) building layers    *)
(*              with NumpyBackend.add_var / add_op / next_layer, and the   *)
(*              evaluation of the layers built                             *)
(*   SpecVec    CircuitIR._vectorize_nodes_in_place and the distribution   *)
(*              of inputs and outputs over the vector nodes in             *)
(*              CircuitIR.run (pyrates/ir/circuit.py)                      *)
(***************************************************************************)
EXTENDS Integers, Sequences, FiniteSets, TLC

(***************************************************************************)
(* Bounds of the model.                                                    *)
(***************************************************************************)
MaxLayers == 2      \* number of backend layers a run is called on
MaxSteps == 2       \* largest `steps` argument of run()

(***************************************************************************)
(* Generic helpers on sequences.                                           *)
(***************************************************************************)
NoneVal == 0        \* the null marker of a layer slot / Python's None

Min(a, b) == IF a < b THEN a ELSE b

RECURSIVE SeqOfSet(_)
\* ascending list of a set of integers
SeqOfSet(S) ==
  IF S = {} THEN <<>>
  ELSE LET m == CHOOSE x \in S : \A y \in S : x <= y
       IN <<m>> \o SeqOfSet(S \ {m})

RECURSIVE FilterSeq(_, _)
FilterSeq(s, S) ==
  IF s = <<>> THEN <<>>
  ELSE (IF Head(s) \in S THEN <<Head(s)>> ELSE <<>>) \o FilterSeq(Tail(s), S)

RECURSIVE Flatten(_)
Flatten(ss) == IF ss = <<>> THEN <<>> ELSE Head(ss) \o Flatten(Tail(ss))

RemoveAt(s, i) == [k \in 1..(Len(s) - 1) |-> IF k < i THEN s[k] ELSE s[k + 1]]

Range(s) == {s[k] : k \in 1..Len(s)}

\* position of the first element of s equal to x, 0 when there is none
IndexOf(s, x) ==
  IF \E k \in 1..Len(s) : s[k] = x
  THEN CHOOSE k \in 1..Len(s) : s[k] = x /\ \A j \in 1..(k - 1) : s[j] # x
  ELSE 0

(***************************************************************************)
(* State of a call of NumpyBackend.run.                                    *)
(***************************************************************************)
VARIABLES
  cfg,          \* self.layers as it was when run() was called
  layers,       \* self.layers: a list of layers, each a list of op ids / NoneVal
  args,         \* the arguments of the call of run()
  pc,           \* position of the main thread inside run()
  err,          \* the exception that ended run(), "none" otherwise
  eval_layers,  \* the layer objects to evaluate in every step
  samp,         \* the sampling layer object, NoneVal when there is none
  it,           \* number of loop iterations started so far
  step,         \* the loop variable `step`, -1 while it is unbound
  li,           \* position inside `for l in layers`
  u,            \* value of the input variable self.vars[key]
  thr,          \* state of the threads of layer_run, one per operation
  ti,           \* position inside the start / join loops of layer_run
  trace         \* the operations executed so far, in execution order

runVars == <<cfg, layers, args, pc, err, eval_layers, samp, it, step, li, u,
             thr, ti, trace>>

(***************************************************************************)
(* State of CircuitIR.compile while it collects and orders the equations.  *)
(***************************************************************************)
VARIABLES
  sched         \* the circuit and the local variables of _collect_op_layers

(***************************************************************************)
(* State of a NumpyBackend that equations are parsed into, and of the      *)
(* parser that fills it.                                                   *)
(***************************************************************************)
VARIABLES
  bk,           \* the backend: layers, layer, op_indices, counters, vars, ops
  par           \* parse_equations: the equations, the loop position, the steps

(***************************************************************************)
(* State of a CircuitIR whose nodes are vectorized and which is then run.  *)
(***************************************************************************)
VARIABLES
  vec           \* the nodes, label_map, the vector nodes and their values

vars == <<cfg, layers, args, pc, err, eval_layers, samp, it, step, li, u,
          thr, ti, trace, sched, bk, par, vec>>

\* the variables a call of NumpyBackend.run leaves alone
notRun == <<sched, bk, par, vec>>

\* the variables CircuitIR.compile leaves alone while it orders the equations
notSched == <<runVars, bk, par, vec>>

\* the variables parse_equations and the evaluation of the parsed layers leave alone
notParse == <<runVars, sched, vec>>

\* the variables the vectorization and CircuitIR.run leave alone
notVec == <<runVars, sched, bk, par>>

(***************************************************************************)
(* Layer configurations and call arguments a run is started from.          *)
(***************************************************************************)
\* an operation of layer i at position j (both 0-based) is named 10*i + j + 1
OpId(i, j) == 10 * i + j + 1
OpLayer(op) == (op - 1) \div 10

\* the shapes of one layer: 1 is a live operation, 0 a slot nulled by add_op
LayerShapes == {<<1>>, <<0>>, <<1, 1>>, <<0, 1>>}

LayerOfShape(i, sh) ==
  [j \in 1..Len(sh) |-> IF sh[j] = 1 THEN OpId(i, j - 1) ELSE NoneVal]

LayerConfigs ==
  UNION {{[i \in 1..n |-> LayerOfShape(i - 1, f[i])] : f \in [1..n -> LayerShapes]}
         : n \in 1..MaxLayers}

Strides == {0, 1, 2}     \* sampling_steps; 0 stands for None

\* the per-step input dictionaries: entry n (0-based) is {key: n + 1}, the
\* value 0 stands for an empty dictionary
InputLists(steps) ==
  {[k \in 1..n |-> k] : n \in {m \in {0, steps - 1, steps, steps + 1} : m >= 0}}
    \cup {[k \in 1..steps |-> 0]}

AnyInputs(inputs) == \E k \in 1..Len(inputs) : inputs[k] # 0


(***************************************************************************)
(* NumpyBackend.compile: strip the nulled slots, drop the empty layers and  *)
(* return the mapping from old layer indices to the compacted layers.      *)
(* A layer object of the compacted list is named by its 1-based position,  *)
(* NoneVal is the mapping of a dropped layer.                              *)
(***************************************************************************)
StripNone(layer) == SelectSeq(layer, LAMBDA op : op # NoneVal)

RECURSIVE CompileLoop(_, _, _, _, _)
\* i: 1-based position in self.layers.copy(); objs: the layers still held by
\* self.layers (named by their original position); new: new_layer_idx
CompileLoop(ls, i, objs, new, mapping) ==
  IF i > Len(ls) THEN [objs |-> objs, mapping |-> mapping]
  ELSE IF StripNone(ls[i]) = <<>>
       THEN CompileLoop(ls, i + 1, RemoveAt(objs, new + 1), new,
                        Append(mapping, NoneVal))
       ELSE CompileLoop(ls, i + 1, objs, new + 1, Append(mapping, new + 1))

compile(ls) ==
  LET r == CompileLoop(ls, 1, [k \in 1..Len(ls) |-> k], 0, <<>>)
  IN [layers  |-> [k \in 1..Len(r.objs) |-> StripNone(ls[r.objs[k]])],
      mapping |-> r.mapping,
      \* layer_mapping[l_key] = self.layers[layer_mapping[l_key]] with a
      \* None index raises TypeError
      err     |-> IF \E k \in 1..Len(r.mapping) : r.mapping[k] = NoneVal
                  THEN "TypeError" ELSE "none"]

(***************************************************************************)
(* NumpyBackend.run, up to the call of _run_inp / _run_no_inp.             *)
(***************************************************************************)
IdxEntry(l) == [t |-> "idx", v |-> l]
LayerEntry(k) == [t |-> "layer", v |-> k]

RECURSIVE MapEvalLayers(_, _, _, _)
\* for i, l in enumerate(eval_layers.copy()): ...
MapEvalLayers(ev, copy, i, lrf) ==
  IF i > Len(copy) THEN [err |-> "none", ev |-> ev]
  ELSE LET l == copy[i].v
       IN IF lrf[l + 1] = NoneVal
          THEN LET p == IndexOf(ev, copy[i])
               IN IF p = 0 THEN [err |-> "ValueError", ev |-> ev]
                  ELSE MapEvalLayers(RemoveAt(ev, p), copy, i + 1, lrf)
          ELSE IF i > Len(ev) THEN [err |-> "IndexError", ev |-> ev]
          ELSE MapEvalLayers([ev EXCEPT ![i] = LayerEntry(lrf[l + 1])],
                             copy, i + 1, lrf)

\* sampling_steps after `if not sampling_steps: sampling_steps = 1`
SamplingSteps == IF args.sampling_steps = 0 THEN 1 ELSE args.sampling_steps

\* eval_layers before compile(): the requested layers (all layers when none
\* is requested) without the sampling layer, as list(set(...)) orders them
SelectedLayers(n, layersArg, sampling_layer) ==
  LET requested == IF layersArg = {} THEN 0..(n - 1) ELSE layersArg
  IN SeqOfSet(requested \ {sampling_layer})

WithInputs == AnyInputs(args.inputs)

\* the number of iterations of `for step in range(steps)` and of
\* `for step, inp in zip(range(steps), inputs)`
Iterations ==
  IF WithInputs THEN Min(args.steps, Len(args.inputs)) ELSE args.steps

RunEnter(ev, sl) ==
  /\ eval_layers' = ev
  /\ samp' = sl
  /\ pc' = "loop"
  /\ err' = "none"

RunRaise(e) ==
  /\ pc' = "error"
  /\ err' = e
  /\ UNCHANGED <<eval_layers, samp>>

run ==
  /\ pc = "call"
  /\ LET n    == Len(layers)
         sel  == SelectedLayers(n, args.layers, args.sampling_layer)
         ev0  == [k \in 1..Len(sel) |-> IdxEntry(sel[k])]
         comp == compile(layers)
         m    == MapEvalLayers(ev0, ev0, 1, comp.mapping)
     IN /\ layers' = comp.layers
        /\ IF comp.err # "none" THEN RunRaise(comp.err)
           ELSE IF m.err # "none" THEN RunRaise(m.err)
           ELSE IF args.sampling_layer \notin 0..(n - 1) THEN RunRaise("KeyError")
           ELSE RunEnter(m.ev, comp.mapping[args.sampling_layer + 1])
  /\ UNCHANGED <<cfg, args, it, step, li, u, thr, ti, trace>>
  /\ UNCHANGED notRun

(***************************************************************************)
(* _run_inp / _run_no_inp: the simulation loop.                            *)
(***************************************************************************)
Event(kind, op) == [k |-> kind, step |-> step, op |-> op, u |-> u]

\* the events of eval_layer(layer): its operations one after the other
EvalEvents(kind, layer) == [j \in 1..Len(layer) |-> Event(kind, layer[j])]

AfterSampling == IF WithInputs THEN "inp" ELSE "layers"

\* `for step ...:` takes the next iteration; on a sampled step layer_run
\* is entered first
StepBegin ==
  /\ pc = "loop"
  /\ it < Iterations
  /\ it' = it + 1
  /\ step' = it
  /\ li' = 1
  /\ IF samp # NoneVal /\ it % SamplingSteps = 0
     THEN /\ pc' = "start"
          /\ thr' = [j \in 1..Len(layers[samp]) |-> "new"]
          /\ ti' = 1
     ELSE /\ pc' = AfterSampling
          /\ UNCHANGED <<thr, ti>>
  /\ UNCHANGED <<cfg, layers, args, err, eval_layers, samp, u, trace>>
  /\ UNCHANGED notRun

\* layer_run: for thread in threads: thread.start()
ThreadStart ==
  /\ pc = "start"
  /\ thr' = [thr EXCEPT ![ti] = "running"]
  /\ IF ti = Len(thr) THEN pc' = "join" /\ ti' = 1
                      ELSE pc' = "start" /\ ti' = ti + 1
  /\ UNCHANGED <<cfg, layers, args, err, eval_layers, samp, it, step, li, u, trace>>
  /\ UNCHANGED notRun

\* a started thread runs its operation of the sampling layer to completion
ThreadRun(j) ==
  /\ j \in DOMAIN thr
  /\ thr[j] = "running"
  /\ thr' = [thr EXCEPT ![j] = "done"]
  /\ trace' = Append(trace, Event("sample", layers[samp][j]))
  /\ UNCHANGED <<cfg, layers, args, pc, err, eval_layers, samp, it, step, li, u, ti>>
  /\ UNCHANGED notRun

\* a join that returns without waiting for its thread
JoinReturns_NoWait(j) == thr[j] \in {"running", "done"}

\* thread.join() returns once the thread has terminated
JoinReturns(j) == thr[j] = "done"

\* layer_run: for thread in threads: thread.join()
ThreadJoin ==
  /\ pc = "join"
  /\ JoinReturns(ti)
  /\ IF ti = Len(thr) THEN pc' = AfterSampling /\ ti' = 1
                      ELSE pc' = "join" /\ ti' = ti + 1
  /\ UNCHANGED <<cfg, layers, args, err, eval_layers, samp, it, step, li, u, thr, trace>>
  /\ UNCHANGED notRun

\* _run_inp: for key, val in inp.items(): self.vars[key][:] = val
WriteInputs ==
  /\ pc = "inp"
  /\ LET val == args.inputs[it]
     IN IF val # 0
        THEN /\ u' = val
             /\ trace' = Append(trace, [k |-> "input", step |-> step, op |-> 0, u |-> val])
        ELSE UNCHANGED <<u, trace>>
  /\ pc' = "layers"
  /\ UNCHANGED <<cfg, layers, args, err, eval_layers, samp, it, step, li, thr, ti>>
  /\ UNCHANGED notRun

\* for l in layers: self.eval_layer(l)
EvalLayer ==
  /\ pc = "layers"
  /\ li <= Len(eval_layers)
  /\ IF eval_layers[li].t = "layer"
     THEN /\ trace' = trace \o EvalEvents("eval", layers[eval_layers[li].v])
          /\ li' = li + 1
          /\ UNCHANGED <<pc, err>>
     ELSE /\ pc' = "error"       \* eval_layer of an index that was not mapped
          /\ err' = "TypeError"
          /\ UNCHANGED <<trace, li>>
  /\ UNCHANGED <<cfg, layers, args, eval_layers, samp, it, step, u, thr, ti>>
  /\ UNCHANGED notRun

StepEnd ==
  /\ pc = "layers"
  /\ li > Len(eval_layers)
  /\ pc' = "loop"
  /\ UNCHANGED <<cfg, layers, args, err, eval_layers, samp, it, step, li, u, thr, ti, trace>>
  /\ UNCHANGED notRun

\* `step+1 % sampling_steps == 0` parses as step + (1 % sampling_steps) == 0
FinalSampleTest == step + (1 % SamplingSteps) = 0

\* the code after the loop
RunExit ==
  /\ pc = "loop"
  /\ it >= Iterations
  /\ IF samp = NoneVal
     THEN pc' = "done" /\ UNCHANGED <<err, trace>>
     ELSE IF step = -1
     THEN pc' = "error" /\ err' = "UnboundLocalError" /\ UNCHANGED trace
     ELSE /\ pc' = "done"
          /\ UNCHANGED err
          /\ IF FinalSampleTest
             THEN trace' = trace \o EvalEvents("sample", layers[samp])
             ELSE UNCHANGED trace
  /\ UNCHANGED <<cfg, layers, args, eval_layers, samp, it, step, li, u, thr, ti>>
  /\ UNCHANGED notRun

(***************************************************************************)
(* SpecRun: one call of run() on every layer configuration and argument    *)
(* combination within the bounds.                                          *)
(***************************************************************************)
RunArgs(n) ==
  [steps          : 0..MaxSteps,
   sampling_steps : Strides,
   sampling_layer : (-1)..(n - 1),      \* -1 is what run() turns None into
   layers         : SUBSET (0..(n - 1)), \* {} stands for None
   inputs         : UNION {InputLists(st) : st \in 0..MaxSteps}]

InitRun ==
  /\ cfg \in LayerConfigs
  /\ layers = cfg
  /\ args \in {a \in RunArgs(Len(cfg)) : a.inputs \in InputLists(a.steps)}
  /\ pc = "call"
  /\ err = "none"
  /\ eval_layers = <<>>
  /\ samp = NoneVal
  /\ it = 0
  /\ step = -1
  /\ li = 1
  /\ u = 0
  /\ thr = <<>>
  /\ ti = 1
  /\ trace = <<>>
  /\ sched = [cpc |-> "idle"]
  /\ bk = [layer |-> 0]
  /\ par = [ppc |-> "idle"]
  /\ vec = [vpc |-> "idle"]

NextRun ==
  \/ run
  \/ StepBegin
  \/ ThreadStart
  \/ \E j \in DOMAIN thr : ThreadRun(j)
  \/ ThreadJoin
  \/ WriteInputs
  \/ EvalLayer
  \/ StepEnd
  \/ RunExit

SpecRun == InitRun /\ [][NextRun]_vars

RunTypeOK ==
  /\ pc \in {"call", "loop", "start", "join", "inp", "layers", "done", "error"}
  /\ it \in 0..MaxSteps
  /\ step \in (-1)..MaxSteps


(***************************************************************************)
(* Properties of a run.                                                    *)
(***************************************************************************)
RunEnded == pc \in {"done", "error"}

\* positions of the trace holding an event of the given kind and step
EventsAt(kind, n) ==
  {p \in DOMAIN trace : trace[p].k = kind /\ trace[p].step = n}

\* the operations evaluated by `for l in layers` in step n, in execution order
EvalOps(n) ==
  LET sel == SelectSeq(trace, LAMBDA e : e.k = "eval" /\ e.step = n)
  IN [k \in 1..Len(sel) |-> sel[k].op]

\* the live operations of the layers selected for evaluation, in ascending
\* order of the original layer index
ExpectedOps ==
  LET sel == SelectedLayers(Len(cfg), args.layers, args.sampling_layer)
  IN Flatten([k \in 1..Len(sel) |-> StripNone(cfg[sel[k] + 1])])

\* C1: a run that was given a sampling layer evaluates, in every step of its
\* loop, each selected non-empty layer exactly once and in ascending order of
\* the original layer index, whatever layers were emptied by inlining.
C1_EveryLayerOncePerStep ==
  (RunEnded /\ args.sampling_layer >= 0)
    => \A n \in 0..(Iterations - 1) : EvalOps(n) = ExpectedOps

\* the layers of ls that hold a live operation, stripped of the null markers,
\* in their original order
LiveLayers(ls) ==
  SelectSeq([k \in 1..Len(ls) |-> StripNone(ls[k])], LAMBDA l : l # <<>>)

\* number of layers before position k (1-based) that hold a live operation
LiveBefore(ls, k) == Cardinality({j \in 1..(k - 1) : StripNone(ls[j]) # <<>>})

\* C12: once run() has called compile(), compile() has returned without an
\* error, self.layers holds exactly the layers with a live operation in
\* their original order, and the mapping has an entry for every original
\* layer index: the null marker for a dropped layer, and otherwise the
\* compacted layer that holds the live operations of the original layer.
C12_CompileMapping ==
  pc # "call" =>
    LET comp == compile(cfg)
    IN /\ err # "TypeError"
       /\ comp.err = "none"
       /\ layers = LiveLayers(cfg)
       /\ Len(comp.mapping) = Len(cfg)
       /\ \A k \in 1..Len(cfg) :
            IF StripNone(cfg[k]) = <<>>
            THEN comp.mapping[k] = NoneVal
            ELSE /\ comp.mapping[k] = LiveBefore(cfg, k) + 1
                 /\ layers[comp.mapping[k]] = StripNone(cfg[k])

\* C7: every sample of a step is recorded after the layers of that step have
\* been evaluated, and a finished run has sampled exactly the steps
\* 0, s, 2s, ... below N, once each.
C7_SampleAfterStepUpdates ==
  /\ \A p \in DOMAIN trace : \A q \in DOMAIN trace :
       (trace[p].k = "sample" /\ trace[q].k = "eval"
          /\ trace[q].step = trace[p].step) => q < p
  /\ pc = "done" =>
       \A n \in 0..(args.steps - 1) :
         Cardinality(EventsAt("sample", n)) =
           (IF n % SamplingSteps = 0 THEN Len(layers[samp]) ELSE 0)

\* C24: the sampling events of a run are never more than the sample rows
\* allocated for the outputs, int(sim_steps / sampling_steps); every
\* sampling event runs each operation of the sampling layer once.
C24_SamplesWithinRows ==
  samp # NoneVal =>
    Cardinality({p \in DOMAIN trace : trace[p].k = "sample"})
      <= (args.steps \div SamplingSteps) * Len(layers[samp])

\* C8: in a run with inputs, every layer run in step n (the sampling layer
\* included) finds the n-th input value in the input variable.
C8_LayersReadStepInput ==
  \A p \in DOMAIN trace :
    (trace[p].k \in {"eval", "sample"} /\ WithInputs)
      => trace[p].u = args.inputs[trace[p].step + 1]

\* C9: a run that returns has performed exactly `steps` iterations of the
\* simulation loop, with or without inputs.
C9_ExactlyNSteps == (pc = "done") => (it = args.steps)

\* C10: once layer_run has returned, every thread it started has completed,
\* and every operation of the following layers and of the inputs of that step
\* comes after the results of all operations of the concurrently run layer.
C10_LayerBarrier ==
  /\ pc \notin {"start", "join"} => \A j \in DOMAIN thr : thr[j] = "done"
  /\ \A p \in DOMAIN trace :
       (trace[p].k \in {"eval", "input"} /\ trace[p].step % SamplingSteps = 0)
         => Cardinality({q \in EventsAt("sample", trace[p].step) : q < p})
              = Len(layers[samp])

\* C10 witness: the two threads of a sampling layer finished in the order
\* opposite to their start, and a layer of the same step was evaluated after
C10_Witness ==
  \E p \in DOMAIN trace : \E q \in DOMAIN trace : \E r \in DOMAIN trace :
    /\ p < q /\ q < r
    /\ trace[p].k = "sample" /\ trace[q].k = "sample" /\ trace[r].k = "eval"
    /\ trace[p].op > trace[q].op
    /\ trace[p].step = trace[r].step /\ trace[q].step = trace[r].step


(***************************************************************************)
(* CircuitIR.compile: collecting the operators of every node layer by      *)
(* layer (_collect_op_layers) and ordering the layers (sort_equations).    *)
(*                                                                         *)
(* Operator j of node n is named 10*n + j; the operator that compile()     *)
(* creates on node t for the edge coming from node s (edge_from_<s>_0) is  *)
(* named 10*t + 5 + s.  The equations of an operator are kept together and  *)
(* are represented by the operator's name.                                 *)
(***************************************************************************)
MaxNodeOps == 2          \* operators per node

CircuitNodes == {1, 2}
NumNodes == Cardinality(CircuitNodes)

NodeOp(n, j) == 10 * n + j
EdgeOp(s, t) == 10 * t + 5 + s
IsEdgeOp(op) == op % 10 > 5        \* "edge_from_" in op

\* the operator graphs: k[n] operators on node n, dependencies dep among
\* them, net[<<s, t>>] the operator of t fed by the edge s -> t (0: no edge)
NetPairs == {p \in CircuitNodes \X CircuitNodes : p[1] # p[2]}

OpsOfNode(k, net, n) ==
  {NodeOp(n, j) : j \in 1..k[n]} \cup
  {EdgeOp(p[1], n) : p \in {q \in NetPairs : q[2] = n /\ net[q] # 0}}

DepsOfNode(dep, net, n) ==
  {d \in dep : d[1] \div 10 = n} \cup
  {<<EdgeOp(p[1], n), NodeOp(n, net[p])>> :
     p \in {q \in NetPairs : q[2] = n /\ net[q] # 0}}

ForwardPairs(k) ==
  UNION {{<<NodeOp(n, a), NodeOp(n, b)>> :
            a \in 1..k[n], b \in 1..k[n]} : n \in CircuitNodes}

Circuits ==
  UNION {
    {[ops  |-> [n \in CircuitNodes |-> OpsOfNode(k, net, n)],
      deps |-> [n \in CircuitNodes |-> DepsOfNode(dep, net, n)],
      diff |-> diff] :
        dep \in SUBSET {d \in ForwardPairs(k) : d[1] < d[2]},
        diff \in SUBSET UNION {{NodeOp(n, j) : j \in 1..k[n]} : n \in CircuitNodes},
        net \in {f \in [NetPairs -> 0..MaxNodeOps] :
                   \A p \in NetPairs : f[p] <= k[p[2]]}}
    : k \in [CircuitNodes -> 1..MaxNodeOps]}

\* is_diff_eq applied to the equations of an operator
is_diff_eq(eq, diffs) == eq \in diffs

\* ops = [op for op, in_degree in graph.in_degree if in_degree == 0]
ZeroInDegree(graph, deps) ==
  {op \in graph : ~ \E d \in deps : d[2] = op /\ d[1] \in graph}

\* (i in layers and not exclude) or (i not in layers and exclude), for the
\* two calls compile() makes: layers=[0], exclude=False and layers=[], exclude=True
LevelSelected(phase, i) == IF phase = "edge" THEN i = 0 ELSE TRUE

\* ops_tmp: the operators picked by op_identifier="edge_from_"
OpsSelected(phase, ops) ==
  IF phase = "edge" THEN {op \in ops : IsEdgeOp(op)}
  ELSE {op \in ops : ~IsEdgeOp(op)}

\* the counter i of `while graph.nodes:`; no pass tells two values above the
\* deepest operator graph apart, so the counter stays at MaxLevel once there
MaxLevel == MaxNodeOps + NumNodes + 1

NextLevel(i) == Min(i + 1, MaxLevel)

\* one iteration of `while graph.nodes:` in _collect_op_layers
CollectLevel ==
  /\ sched.cpc \in {"edge", "node"}
  /\ sched.graph # {}
  /\ LET ops    == ZeroInDegree(sched.graph, sched.circuit.deps[sched.ni])
         op_eqs == SeqOfSet(OpsSelected(sched.cpc, ops))
         i      == sched.lvl
         eqs    == sched.equations
     IN sched' =
          IF ~LevelSelected(sched.cpc, i)
          THEN [sched EXCEPT !.graph = @ \ ops, !.lvl = NextLevel(i)]
          ELSE IF i = Len(eqs)
          THEN [sched EXCEPT !.equations = Append(eqs, op_eqs),
                             !.graph = @ \ ops, !.lvl = NextLevel(i)]
          ELSE IF i < Len(eqs)
          THEN [sched EXCEPT !.equations = [eqs EXCEPT ![i + 1] = @ \o op_eqs],
                             !.graph = @ \ ops, !.lvl = NextLevel(i)]
          ELSE [sched EXCEPT !.cpc = "error", !.err = "IndexError"]
  /\ UNCHANGED notSched

\* `for node_name, node in self.nodes.items():` moves on to the next node
CollectNextNode ==
  /\ sched.cpc \in {"edge", "node"}
  /\ sched.graph = {}
  /\ sched.ni < NumNodes
  /\ sched' = [sched EXCEPT !.ni = @ + 1, !.lvl = 0,
                            !.graph = sched.circuit.ops[sched.ni + 1]]
  /\ UNCHANGED notSched

\* _collect_op_layers returns; compile() goes on with the node operators
\* after the edge operators, and with sort_equations after both
CollectReturn ==
  /\ sched.cpc \in {"edge", "node"}
  /\ sched.graph = {}
  /\ sched.ni = NumNodes
  /\ sched' =
       IF sched.cpc = "edge"
       THEN [sched EXCEPT !.cpc = "node", !.edge_eqs = sched.equations,
                          !.equations = <<>>, !.ni = 1, !.lvl = 0,
                          !.graph = sched.circuit.ops[1]]
       ELSE [sched EXCEPT !.cpc = "sort", !.node_eqs = sched.equations]
  /\ UNCHANGED notSched

RECURSIVE CleanUp(_, _, _)
\* for i, layer in enumerate(eqs.copy()): if not layer: eqs.pop(i)
CleanUp(eqs, copy, i) ==
  IF i > Len(copy) THEN [err |-> "none", eqs |-> eqs]
  ELSE IF copy[i] # <<>> THEN CleanUp(eqs, copy, i + 1)
  ELSE IF i > Len(eqs) THEN [err |-> "IndexError", eqs |-> eqs]
  ELSE CleanUp(RemoveAt(eqs, i), copy, i + 1)

RECURSIVE Promote(_, _, _, _, _)
\* for node_layer in node_eqs.copy(): layers without a differential equation
\* move from node_eqs to eqs_new
Promote(node_eqs, copy, i, eqs_new, diffs) ==
  IF i > Len(copy) THEN [eqs_new |-> eqs_new, node_eqs |-> node_eqs]
  ELSE IF \E j \in 1..Len(copy[i]) : is_diff_eq(copy[i][j], diffs)
  THEN Promote(node_eqs, copy, i + 1, eqs_new, diffs)
  ELSE Promote(RemoveAt(node_eqs, IndexOf(node_eqs, copy[i])), copy, i + 1,
               Append(eqs_new, copy[i]), diffs)

sort_equations(edge_eqs, node_eqs, diffs) ==
  LET e == CleanUp(edge_eqs, edge_eqs, 1)
      n == CleanUp(node_eqs, node_eqs, 1)
      r == Promote(n.eqs, n.eqs, 1, <<>>, diffs)
  IN IF e.err # "none" THEN [err |-> e.err, eqs |-> <<>>]
     ELSE IF n.err # "none" THEN [err |-> n.err, eqs |-> <<>>]
     ELSE [err |-> "none", eqs |-> r.eqs_new \o e.eqs \o r.node_eqs]

\* equations = sort_equations(edge_eqs=equations, node_eqs=equations_tmp)
SortEquations ==
  /\ sched.cpc = "sort"
  /\ LET r == sort_equations(sched.edge_eqs, sched.node_eqs, sched.circuit.diff)
     IN sched' = [sched EXCEPT !.cpc = IF r.err = "none" THEN "done" ELSE "error",
                               !.err = r.err, !.eqs = r.eqs]
  /\ UNCHANGED notSched

InitSched ==
  /\ \E c \in Circuits :
       sched = [cpc |-> "edge", circuit |-> c, ni |-> 1, lvl |-> 0,
                graph |-> c.ops[1], equations |-> <<>>, edge_eqs |-> <<>>,
                node_eqs |-> <<>>, eqs |-> <<>>, err |-> "none"]
  /\ cfg = <<>>
  /\ layers = <<>>
  /\ args = <<>>
  /\ pc = "idle"
  /\ err = "none"
  /\ eval_layers = <<>>
  /\ samp = NoneVal
  /\ it = 0
  /\ step = -1
  /\ li = 1
  /\ u = 0
  /\ thr = <<>>
  /\ ti = 1
  /\ trace = <<>>
  /\ bk = [layer |-> 0]
  /\ par = [ppc |-> "idle"]
  /\ vec = [vpc |-> "idle"]

NextSched ==
  \/ CollectLevel
  \/ CollectNextNode
  \/ CollectReturn
  \/ SortEquations

SpecSched == InitSched /\ [][NextSched]_vars

RECURSIVE Residual(_, _)
\* what is left of an operator graph when the operators without a
\* predecessor are removed again and again
Residual(graph, deps) ==
  IF ZeroInDegree(graph, deps) = {} THEN graph
  ELSE Residual(graph \ ZeroInDegree(graph, deps), deps)

\* the operator graph of some node of the circuit holds a dependency cycle
HasCycle(c) == \E n \in CircuitNodes : Residual(c.ops[n], c.deps[n]) # {}

\* circuits in which the two operators of a node name each other as source
CyclicCircuits ==
  UNION {{[c EXCEPT !.deps[n] = @ \cup {<<NodeOp(n, 1), NodeOp(n, 2)>>,
                                        <<NodeOp(n, 2), NodeOp(n, 1)>>}] :
            c \in {x \in Circuits : NodeOp(n, 2) \in x.ops[n]}}
         : n \in CircuitNodes}

InitCycle ==
  /\ \E c \in Circuits \cup CyclicCircuits :
       sched = [cpc |-> "edge", circuit |-> c, ni |-> 1, lvl |-> 0,
                graph |-> c.ops[1], equations |-> <<>>, edge_eqs |-> <<>>,
                node_eqs |-> <<>>, eqs |-> <<>>, err |-> "none"]
  /\ cfg = <<>>
  /\ layers = <<>>
  /\ args = <<>>
  /\ pc = "idle"
  /\ err = "none"
  /\ eval_layers = <<>>
  /\ samp = NoneVal
  /\ it = 0
  /\ step = -1
  /\ li = 1
  /\ u = 0
  /\ thr = <<>>
  /\ ti = 1
  /\ trace = <<>>
  /\ bk = [layer |-> 0]
  /\ par = [ppc |-> "idle"]
  /\ vec = [vpc |-> "idle"]

\* compile() runs on as long as it has a step to take
SpecCycle == InitCycle /\ [][NextSched]_vars /\ WF_vars(NextSched)

\* C14: compiling a circuit with a node whose operator graph holds a
\* dependency cycle ends with an error: it eventually raises, and it never
\* returns an equation order.
C14_CycleRaises ==
  /\ [](HasCycle(sched.circuit) => sched.cpc # "done")
  /\ [](HasCycle(sched.circuit) => <>(sched.cpc = "error"))

(***************************************************************************)
(* Properties of the compiled equation order.                              *)
(***************************************************************************)
\* 1-based index of the layer of eqs holding the equations of op, 0 if none
LayerIndex(eqs, op) ==
  IF \E k \in 1..Len(eqs) : op \in Range(eqs[k])
  THEN CHOOSE k \in 1..Len(eqs) : op \in Range(eqs[k])
  ELSE 0

AllDeps == UNION {sched.circuit.deps[n] : n \in CircuitNodes}
AllOps == UNION {sched.circuit.ops[n] : n \in CircuitNodes}

\* C3: in the compiled equation order the equations of an operator u that
\* operator v names as input source are in a layer before the layer of v.
C3_SourcesInEarlierLayer ==
  sched.cpc = "done" =>
    \A d \in AllDeps :
      /\ LayerIndex(sched.eqs, d[1]) >= 1
      /\ LayerIndex(sched.eqs, d[1]) < LayerIndex(sched.eqs, d[2])

MaxBatch == 3

\* batches of at most MaxBatch layers, every equation in one layer only
Batches(layerSet) ==
  {b \in UNION {[1..n -> layerSet \cup {<<>>}] : n \in 0..MaxBatch} :
     \A j, k \in 1..Len(b) : (j # k /\ b[j] # <<>>) => b[j] # b[k]}

EdgeBatches == Batches({<<EdgeOp(2, 1)>>})

NodeBatches == Batches({<<NodeOp(1, 1)>>, <<NodeOp(1, 2)>>, <<NodeOp(2, 1)>>})

InitSort ==
  /\ \E e \in EdgeBatches, n \in NodeBatches, diff \in SUBSET {NodeOp(1, 2), NodeOp(2, 1)} :
       sched = [cpc |-> "sort", circuit |-> [diff |-> diff], edge_eqs |-> e,
                node_eqs |-> n, eqs |-> <<>>, err |-> "none"]
  /\ cfg = <<>>
  /\ layers = <<>>
  /\ args = <<>>
  /\ pc = "idle"
  /\ err = "none"
  /\ eval_layers = <<>>
  /\ samp = NoneVal
  /\ it = 0
  /\ step = -1
  /\ li = 1
  /\ u = 0
  /\ thr = <<>>
  /\ ti = 1
  /\ trace = <<>>
  /\ bk = [layer |-> 0]
  /\ par = [ppc |-> "idle"]
  /\ vec = [vpc |-> "idle"]

SpecSort == InitSort /\ [][SortEquations]_vars

\* how often an equation stands in a list of layers
Occurrences(ls, eq) ==
  LET flat == Flatten(ls)
  IN Cardinality({k \in 1..Len(flat) : flat[k] = eq})

\* C23: sort_equations returns every equation of its input layers exactly
\* once, whatever the number and the position of the empty layers in the
\* edge and the node batch; it drops none, duplicates none and does not fail.
C23_SortKeepsEveryEquation ==
  /\ sched.cpc = "error" => sched.err # "IndexError"
  /\ sched.cpc = "done" =>
       \A eq \in Range(Flatten(sched.edge_eqs \o sched.node_eqs \o sched.eqs)) :
         Occurrences(sched.eqs, eq)
           = Occurrences(sched.edge_eqs, eq) + Occurrences(sched.node_eqs, eq)

\* the layers of ls that hold an equation and hold or do not hold a
\* differential one
NodeLayers(ls, diffs, with_diff) ==
  SelectSeq(ls, LAMBDA l :
    /\ l # <<>>
    /\ (\E j \in 1..Len(l) : is_diff_eq(l[j], diffs)) = with_diff)

\* C25: in the list sort_equations returns, every node layer without a
\* differential equation stands ahead of every node layer with one, and the
\* layers of either group stand in the order they had in the node batch.
C25_AlgebraicNodeLayersFirst ==
  sched.cpc \in {"done", "error"} =>
    LET isNode(l) == l # <<>> /\ \A j \in 1..Len(l) : ~IsEdgeOp(l[j])
        out == SelectSeq(sched.eqs, isNode)
        plain == NodeLayers(sched.node_eqs, sched.circuit.diff, FALSE)
        diff == NodeLayers(sched.node_eqs, sched.circuit.diff, TRUE)
    IN /\ sched.err # "IndexError"
       /\ out = plain \o diff

(***************************************************************************)
(* NumpyBackend as a value.  A backend b is a record                       *)
(*   layers       self.layers: op ids (positions in ops) / NoneVal         *)
(*   layer        self.layer, the cursor, 0-based as in the source         *)
(*   op_indices   self.op_indices: op.name -> <<layer, position>>, 0-based *)
(*   op_counter   self.op_counter, var_counter  self.var_counter           *)
(*   vars         self.vars: name -> [vtype, rank, val]                    *)
(*   ops          the operation objects created so far                     *)
(* A name is the list of its "_"-separated parts, so that the suffixed     *)
(* name f"{name}_{n}" is Append(name, NumStr(n)).  A shape is represented  *)
(* by its rank (0 for (), 1 for (n,)) and an array by one integer.         *)
(***************************************************************************)
Put(f, k, v) == (k :> v) @@ f

Max(a, b) == IF a > b THEN a ELSE b

NumStr(n) == <<"0", "1", "2", "3", "4", "5", "6", "7", "8", "9">>[n + 1]

\* the objects that are passed around as arguments and results
VarRef(name) == [k |-> "var", name |-> name]
Num(n) == [k |-> "num", n |-> n]

NewBackend ==
  [layers |-> << <<>> >>, layer |-> 0, op_indices |-> <<>>, op_counter |-> <<>>,
   var_counter |-> <<>>, vars |-> <<>>, ops |-> <<>>]

\* self.ops[op]['name']
OpsName(key) ==
  CASE key = "+"  -> "numpy_add"
    [] key = "-"  -> "numpy_subtract"
    [] key = "*"  -> "numpy_multiply"
    [] key = "="  -> "assign"
    [] key = "+=" -> "assign_add"

\* the name add_op counts in op_counter: 'assign' if '=' in op, else the
\* name of the operation (the scope prefix is the same for all of them)
CounterName(key) ==
  CASE key = "+"  -> <<"numpy", "add">>
    [] key = "-"  -> <<"numpy", "subtract">>
    [] key = "*"  -> <<"numpy", "multiply">>
    [] key \in {"=", "+="} -> <<"assign">>

IsAssignKey(key) == key \in {"=", "+=", "-=", "*=", "/="}

\* len(x.shape) of an argument; a Python number has no shape
Rank(b, x) ==
  CASE x.k = "var" -> b.vars[x.name].rank
    [] x.k = "num" -> 0
    [] OTHER       -> x.rank

Apply(key, x, y) ==
  CASE key = "+" -> x + y
    [] key = "-" -> x - y
    [] key = "*" -> x * y

RECURSIVE Eval(_, _)
\* the value of an argument / of the return expression of an operation on
\* the current values of the variables
Eval(x, vs) ==
  CASE x.k = "var" -> vs[x.name].val
    [] x.k = "num" -> x.n
    [] x.k = "op"  -> Apply(x.key, Eval(x.args[1], vs), Eval(x.args[2], vs))

\* names of the arguments that are operations (type(arg) is PyRatesOp)
InputOps(xs) ==
  LET ks == SelectSeq(xs, LAMBDA x : x.k = "op")
  IN [i \in 1..Len(ks) |-> ks[i].name]

\* PyRatesOp(...): the arguments' return expressions are spliced into the
\* new operation; constant when no argument is a variable or an operation
PyRatesOp(b, id, key, xs) ==
  [k |-> "op", id |-> id, name |-> OpsName(key), key |-> key, args |-> xs,
   rank |-> Max(Rank(b, xs[1]), Rank(b, xs[2])),
   constant |-> \A i \in 1..Len(xs) : xs[i].k = "num",
   input_ops |-> InputOps(xs)]

\* PyRatesAssignOp(...): var, upd = args[0:2]
PyRatesAssignOp(b, id, key, xs) ==
  [k |-> "assign", id |-> id, name |-> OpsName(key), key |-> key,
   var |-> xs[1], upd |-> xs[2], rank |-> Rank(b, xs[1]),
   constant |-> FALSE, input_ops |-> InputOps(xs)]

add_var(b, vtype, name, rank, value) ==
  LET seen  == name \in DOMAIN b.var_counter
      name1 == IF seen THEN Append(name, NumStr(b.var_counter[name])) ELSE name
      b1    == [b EXCEPT !.var_counter =
                  Put(@, name, IF seen THEN b.var_counter[name] + 1 ELSE 1)]
  IN [b   |-> [b1 EXCEPT !.vars =
                 Put(@, name1, [vtype |-> vtype, rank |-> rank, val |-> value])],
      \* NumpyVar.__new__ returns the plain value for a constant
      res |-> IF vtype = "constant" THEN Num(value) ELSE VarRef(name1)]

RECURSIVE NullInputs(_, _, _)
\* for op_name in op.input_ops: self.layers[idx_1][idx_2] = None
NullInputs(ls, input_ops, op_indices) ==
  IF input_ops = <<>> THEN ls
  ELSE LET idx == op_indices[Head(input_ops)]
       IN NullInputs([ls EXCEPT ![idx[1] + 1][idx[2] + 1] = NoneVal],
                     Tail(input_ops), op_indices)

\* an add_op that appends the operation to the layer whatever its arguments
add_op_NoFold(b, key, xs) ==
  LET base == CounterName(key)
      seen == base \in DOMAIN b.op_counter
      id   == Len(b.ops) + 1
      op   == PyRatesOp(b, id, key, xs)
      b1   == [b EXCEPT
                 !.op_counter = Put(@, base, IF seen THEN b.op_counter[base] + 1 ELSE 1),
                 !.layers = NullInputs(@, op.input_ops, b.op_indices)]
  IN [b   |-> [b1 EXCEPT
                 !.layers[b.layer + 1] = Append(@, id),
                 !.op_indices = Put(@, op.name, <<b.layer, Len(b1.layers[b.layer + 1])>>),
                 !.ops = Append(@, op)],
      res |-> op]

add_op(b, key, xs) ==
  LET base == CounterName(key)
      seen == base \in DOMAIN b.op_counter
      name == IF seen THEN Append(base, NumStr(b.op_counter[base])) ELSE base
      id   == Len(b.ops) + 1
      op   == IF IsAssignKey(key) THEN PyRatesAssignOp(b, id, key, xs)
              ELSE PyRatesOp(b, id, key, xs)
      b1   == [b EXCEPT
                 !.op_counter = Put(@, base, IF seen THEN b.op_counter[base] + 1 ELSE 1),
                 !.layers = NullInputs(@, op.input_ops, b.op_indices)]
  IN IF op.constant
     THEN add_var(b1, "constant", Append(name, "evaluated"), 0, Eval(op, b.vars))
     ELSE [b   |-> [b1 EXCEPT
                      !.layers[b.layer + 1] = Append(@, id),
                      !.op_indices = Put(@, op.name, <<b.layer, Len(b1.layers[b.layer + 1])>>),
                      !.ops = Append(@, op)],
           res |-> op]

add_layer(b, to_beginning) ==
  IF to_beginning
  THEN [b EXCEPT !.layers = << <<>> >> \o @, !.layer = 0]
  ELSE [b EXCEPT !.layer = Len(b.layers), !.layers = Append(@, <<>>)]

\* a next_layer that appends a layer wherever the cursor stands
next_layer_Append(b) == add_layer(b, FALSE)

next_layer(b) ==
  IF b.layer = Len(b.layers) - 1 THEN add_layer(b, FALSE)
  ELSE [b EXCEPT !.layer = @ + 1]

top_layer(b) == [b EXCEPT !.layer = Len(b.layers) - 1]

bottom_layer(b) == [b EXCEPT !.layer = 0]

previous_layers(b) ==
  IF b.layer = 0 THEN add_layer(b, TRUE)
  ELSE [b EXCEPT !.layer = @ - 1]

\* the method ExpressionParser calls; the backend names it previous_layers
previous_layer(b) == previous_layers(b)

(***************************************************************************)
(* ExpressionParser.  An expression is the expr_stack pyparsing leaves     *)
(* behind (postfix, the last element on top); tokens are strings.          *)
(***************************************************************************)
\* op.isnumeric() / "." in op, and int(op) / float(op)
IsNumeric(tok) == tok \in {"0", "1", "2", "3"}
LiteralValue(tok) == CHOOSE n \in 0..9 : NumStr(n) = tok

\* op in "+-/**^@<=>=!=="
InOpString(tok) ==
  tok \in {"+", "-", "/", "*", "**", "^", "@", "<", "<=", "=", ">", ">=",
           "!", "!=", "=="}

\* op[0].isalpha()
IsAlpha(tok) == tok \in {"a", "b", "u", "dt", "rhs"}

RECURSIVE parse(_, _, _, _, _)
\* stack: expr_stack; pv: self.vars; fin: self._finished_rhs; rhs: self.rhs
parse(stack, b, pv, fin, rhs) ==
  LET op   == stack[Len(stack)]
      rest == SubSeq(stack, 1, Len(stack) - 1)
  IN IF op \in {"*=", "/=", "+=", "-=", "="}
     THEN LET r1 == parse(rest, b, pv, fin, rhs)
              r2 == parse(r1.stack, r1.b, r1.pv, fin, rhs)
              r  == add_op(r2.b, op, <<r2.op, r1.op>>)
          IN [stack |-> r2.stack, b |-> r.b, pv |-> r2.pv, op |-> r.res]
     ELSE IF InOpString(op)
     THEN LET r2 == parse(rest, b, pv, fin, rhs)
              r1 == parse(r2.stack, r2.b, r2.pv, fin, rhs)
              r  == add_op(r1.b, op, <<r1.op, r2.op>>)
          IN [stack |-> r1.stack, b |-> r.b, pv |-> r1.pv, op |-> r.res]
     ELSE IF op \in DOMAIN pv
     THEN [stack |-> rest, b |-> b, pv |-> pv, op |-> pv[op]]
     ELSE IF IsNumeric(op)
     THEN [stack |-> rest, b |-> b, pv |-> pv, op |-> Num(LiteralValue(op))]
     ELSE IF IsAlpha(op) /\ fin
     THEN [stack |-> rest, b |-> b, pv |-> Put(pv, op, rhs), op |-> rhs]
     ELSE [stack |-> rest, b |-> b, pv |-> pv, op |-> [k |-> "ValueError"]]

\* f"{self.lhs_key}_update_0"
UpdateName(lhs_key) == <<lhs_key, "update", "0">>

_update_lhs(b, pv, eq, delta) ==
  LET b1    == next_layer(b)
      stack == IF eq.diff THEN <<eq.lhs>> \o <<"dt", "rhs", "*", "+=">>
               ELSE <<eq.lhs>> \o <<"rhs", eq.assign>>
      r     == parse(stack, b1, pv, TRUE, delta)
  IN [b |-> previous_layer(r.b), op |-> r.op]

parse_expr(b, pv, eq) ==
  LET r     == parse(eq.rhs, b, pv, FALSE, Num(0))
      v     == add_var(r.b, "state_var", UpdateName(eq.lhs), Rank(r.b, r.op), 0)
      a     == add_op(v.b, "=", <<v.res, r.op>>)
  IN _update_lhs(a.b, r.pv, eq, v.res)

RECURSIVE parse_dict(_, _, _)
\* keys: the keys of var_dict in the order of the dictionary
parse_dict(keys, var_dict, b) ==
  IF keys = <<>> THEN [b |-> b, pv |-> var_dict]
  ELSE LET key == Head(keys)
           var == var_dict[key]
       IN IF var.k # "dict" THEN parse_dict(Tail(keys), var_dict, b)
          ELSE LET r == add_var(b, var.vtype, <<key>>, var.rank, var.value)
               IN parse_dict(Tail(keys), Put(var_dict, key, r.res), r.b)

(***************************************************************************)
(* The equation lists parse_equations is called on.                        *)
(***************************************************************************)
StateVars == {"a", "b"}
ArgKeys == <<"a", "b", "u", "dt">>
InitVals == {0, 1}
DtValues == {1, 2}
Ranks == {0, 1}

RhsStacks ==
  {<<"2">>,                                   \* 2
   <<"u", "a", "-">>,                         \* u - a
   <<"b", "2", "*">>,                         \* b * 2
   <<"a", "2", "+">>,                         \* a + 2
   <<"2", "3", "*">>,                         \* 2 * 3
   <<"a", "b", "*", "u", "a", "*", "+">>}     \* a*b + u*a

Equations ==
  [lhs : StateVars, diff : BOOLEAN, assign : {"="}, rhs : RhsStacks]

\* one or two equations with different left-hand sides
EquationLists ==
  {<<e>> : e \in Equations} \cup
  {q \in Equations \X Equations : q[1].lhs # q[2].lhs}

\* two equations for the same left-hand side
ConflictingLists ==
  {q \in Equations \X Equations :
     /\ q[1].lhs = q[2].lhs
     /\ q[1].rhs \in {<<"2">>, <<"u", "a", "-">>}
     /\ q[2].rhs \in {<<"b", "2", "*">>, <<"a", "2", "+">>}}

EquationArgs(rank, va, vb, dt) ==
  [key \in Range(ArgKeys) |->
     CASE key = "a"  -> [k |-> "dict", vtype |-> "state_var", rank |-> rank, value |-> va]
       [] key = "b"  -> [k |-> "dict", vtype |-> "state_var", rank |-> rank, value |-> vb]
       [] key = "u"  -> [k |-> "dict", vtype |-> "state_var", rank |-> rank, value |-> 1]
       [] key = "dt" -> [k |-> "dict", vtype |-> "constant", rank |-> 0, value |-> dt]]

(***************************************************************************)
(* parse_equations, and the evaluation of the layers it has built.         *)
(***************************************************************************)
\* the loop body of parse_equations for the equation at position par.ei
ParseEquation ==
  /\ par.ppc = "parse"
  /\ par.ei <= Len(par.eqs)
  /\ LET d == parse_dict(ArgKeys, par.args, bk)
         r == parse_expr(d.b, d.pv, par.eqs[par.ei])
     IN /\ bk' = r.b
        /\ par' = [par EXCEPT !.args = d.pv, !.ei = @ + 1]
  /\ UNCHANGED notParse

ParseReturn ==
  /\ par.ppc = "parse"
  /\ par.ei > Len(par.eqs)
  /\ par' = [par EXCEPT !.ppc = "built"]
  /\ UNCHANGED <<bk, notParse>>

\* the operations of the compiled layers in the order in which
\* `for l in layers: self.eval_layer(l)` calls them
CompiledOps(b) == Flatten(compile(b.layers).layers)

\* the code PyRatesAssignOp generates: f"{var_key}{var_idx} {op} {upd_str}",
\* where var_idx is "" for a variable of shape () and "[:]" otherwise, so
\* that `=` on a variable of shape () only rebinds the local name
AssignedValue(key, rank, old, upd) ==
  IF key = "=" THEN (IF rank > 0 THEN upd ELSE old)
  ELSE old + upd

CountOf(f, x) == IF x \in DOMAIN f THEN f[x] ELSE 0

\* a step of the run begins: par.prev remembers the values it starts from
BeginStep ==
  /\ par.ppc = "built"
  /\ par.step < MaxSteps
  /\ compile(bk.layers).err = "none"
  /\ par' = [par EXCEPT !.ppc = "eval", !.oi = 1, !.prev = bk.vars,
                        !.computed = <<>>, !.count = <<>>]
  /\ UNCHANGED <<bk, notParse>>

\* eval_layer calls the next operation; par.computed and par.count record
\* the value an assignment computed and how often its variable was assigned
EvalOp ==
  /\ par.ppc = "eval"
  /\ par.oi <= Len(CompiledOps(bk))
  /\ LET o == bk.ops[CompiledOps(bk)[par.oi]]
     IN IF o.k = "assign"
        THEN LET t == o.var.name
                 v == Eval(o.upd, bk.vars)
             IN /\ bk' = [bk EXCEPT !.vars[t].val =
                            AssignedValue(o.key, bk.vars[t].rank, @, v)]
                /\ par' = [par EXCEPT !.oi = @ + 1,
                                      !.computed = Put(@, t, v),
                                      !.count = Put(@, t, CountOf(par.count, t) + 1)]
        ELSE /\ bk' = bk
             /\ par' = [par EXCEPT !.oi = @ + 1]
  /\ UNCHANGED notParse

EndStep ==
  /\ par.ppc = "eval"
  /\ par.oi > Len(CompiledOps(bk))
  /\ par' = [par EXCEPT !.ppc = "built", !.step = @ + 1]
  /\ UNCHANGED <<bk, notParse>>

InitParse ==
  /\ bk = NewBackend
  /\ \E eqs \in EquationLists \cup ConflictingLists, rank \in Ranks, va \in InitVals,
        vb \in InitVals, dt \in DtValues :
       par = [ppc |-> "parse", eqs |-> eqs,
              args |-> EquationArgs(rank, va, vb, dt), ei |-> 1, dt |-> dt,
              step |-> 0, oi |-> 1, prev |-> <<>>, computed |-> <<>>,
              count |-> <<>>]
  /\ sched = [cpc |-> "idle"]
  /\ vec = [vpc |-> "idle"]
  /\ cfg = <<>>
  /\ layers = <<>>
  /\ args = <<>>
  /\ pc = "idle"
  /\ err = "none"
  /\ eval_layers = <<>>
  /\ samp = NoneVal
  /\ it = 0
  /\ step = -1
  /\ li = 1
  /\ u = 0
  /\ thr = <<>>
  /\ ti = 1
  /\ trace = <<>>

NextParse ==
  \/ ParseEquation
  \/ ParseReturn
  \/ BeginStep
  \/ EvalOp
  \/ EndStep

SpecParse == InitParse /\ [][NextParse]_vars

(***************************************************************************)
(* Properties of the layers built from an equation list.                   *)
(***************************************************************************)
RECURSIVE RhsValue(_, _)
\* the value of a right-hand side on the variable values vs: [val, rest]
RhsValue(stack, vs) ==
  LET tok  == stack[Len(stack)]
      rest == SubSeq(stack, 1, Len(stack) - 1)
  IN IF tok \in {"+", "-", "*"}
     THEN LET y == RhsValue(rest, vs)
              x == RhsValue(y.rest, vs)
          IN [val |-> Apply(tok, x.val, y.val), rest |-> x.rest]
     ELSE IF IsNumeric(tok)
     THEN [val |-> LiteralValue(tok), rest |-> rest]
     ELSE [val |-> vs[<<tok>>].val, rest |-> rest]

StepDone == par.ppc = "built" /\ par.step >= 1

\* the layers (1-based) holding a live assignment to a variable in names
AssignLayers(b, names) ==
  {l \in 1..Len(b.layers) :
     \E p \in 1..Len(b.layers[l]) :
       /\ b.layers[l][p] # NoneVal
       /\ b.ops[b.layers[l][p]].k = "assign"
       /\ b.ops[b.layers[l][p]].var.name \in names}

UpdateVars == {UpdateName(par.eqs[i].lhs) : i \in 1..Len(par.eqs)}
LhsVars == {<<par.eqs[i].lhs>> : i \in 1..Len(par.eqs)}

\* C4: after every step, the variable x of an equation d/dt x = f has been
\* assigned exactly once and holds x_old + dt * f(state at the step's start).
C4_EulerStep ==
  StepDone =>
    \A i \in 1..Len(par.eqs) :
      par.eqs[i].diff =>
        LET x == <<par.eqs[i].lhs>>
        IN /\ CountOf(par.count, x) = 1
           /\ bk.vars[x].val =
                par.prev[x].val + par.dt * RhsValue(par.eqs[i].rhs, par.prev).val

\* the assignments to the update variables are all in layers before the
\* layers of the assignments to the left-hand sides
UpdateLayersFirst ==
  \A l1 \in AssignLayers(bk, UpdateVars) :
    \A l2 \in AssignLayers(bk, LhsVars) : l1 < l2

\* C5: the assignments of the right-hand sides to the update variables are
\* all in layers before the layers of the assignments to the left-hand
\* sides, and after every step every update variable holds the value of its
\* right-hand side on the values the variables had when the step began,
\* assigned once.
C5_RhsLayersBeforeLhsLayers ==
  /\ UpdateLayersFirst
  /\ StepDone =>
       \A i \in 1..Len(par.eqs) :
         /\ CountOf(par.count, UpdateName(par.eqs[i].lhs)) = 1
         /\ bk.vars[UpdateName(par.eqs[i].lhs)].val =
              RhsValue(par.eqs[i].rhs, par.prev).val

\* the arguments an operation was created from
OpArguments(o) == IF o.k = "assign" THEN <<o.var, o.upd>> ELSE o.args

\* the operations that were passed to add_op as an argument of another
\* operation, i.e. whose return expression is inlined there
ConsumedOps(b) ==
  LET arguments == {OpArguments(o)[i] : o \in Range(b.ops), i \in 1..2}
  IN {x.id : x \in {y \in arguments : y.k = "op"}}

\* the operations that stand in a layer slot
LiveOps(b) == Range(Flatten(b.layers)) \ {NoneVal}

\* C11: an operation that was consumed as an inlined argument of another
\* operation stands in no layer slot any more (its slot holds the null
\* marker), so a step does not execute it as a stand-alone layer entry.
C11_ConsumedOpsNulled ==
  ConsumedOps(bk) \cap LiveOps(bk) = {}

\* the variables that the live assignments of a layer write, one entry per
\* assignment
LayerWrites(b, layer) ==
  LET live == SelectSeq(layer, LAMBDA id : id # NoneVal /\ b.ops[id].k = "assign")
  IN [i \in 1..Len(live) |-> b.ops[live[i]].var.name]

\* C13: when parse_equations has returned without an error, no layer holds
\* two assignments to the same variable (an equation list with two writers
\* of a variable in one layer is rejected instead).
C13_OneWriterPerLayer ==
  par.ppc \in {"built", "eval"} =>
    \A l \in 1..Len(bk.layers) :
      LET w == LayerWrites(bk, bk.layers[l])
      IN \A i, j \in 1..Len(w) : i # j => w[i] # w[j]

(***************************************************************************)
(* SpecBackend: a NumpyBackend that receives add_var and add_op calls in   *)
(* any order; par.log records every call with its result.                 *)
(***************************************************************************)
MaxCalls == 3

\* the names add_var is called with: x, x_1 and y
VarNames == {<<"x">>, <<"x", "1">>, <<"y">>}

\* the first and the second argument add_op is called with: a number, a
\* registered variable or an operation that add_op has returned
FirstOperands(b) == {Num(2)} \cup Range(b.ops)

SecondOperands(b) == {Num(3)} \cup {VarRef(n) : n \in DOMAIN b.vars \cap VarNames}

\* a call of add_var for a state variable
AddVarCall ==
  /\ par.ppc = "calls"
  /\ Len(par.log) < MaxCalls
  /\ \E name \in VarNames :
       LET r == add_var(bk, "state_var", name, 0, Len(par.log))
       IN /\ bk' = r.b
          /\ par' = [par EXCEPT !.log = Append(@,
                        [call |-> "add_var", name |-> name, res |-> r.res,
                         constant |-> FALSE,
                         fresh |-> DOMAIN r.b.vars # DOMAIN bk.vars,
                         kept |-> \A n \in DOMAIN bk.vars : r.b.vars[n] = bk.vars[n],
                         layers |-> r.b.layers = bk.layers,
                         op_indices |-> r.b.op_indices = bk.op_indices])]
  /\ UNCHANGED notParse

\* a call of add_op for a sum or a product of two operands
AddOpCall ==
  /\ par.ppc = "calls"
  /\ Len(par.log) < MaxCalls
  /\ \E key \in {"+", "*"}, x \in FirstOperands(bk), y \in SecondOperands(bk) :
       LET r == add_op(bk, key, <<x, y>>)
       IN /\ bk' = r.b
          /\ par' = [par EXCEPT !.log = Append(@,
                        [call |-> "add_op", name |-> <<key>>, res |-> r.res,
                         constant |-> x.k = "num" /\ y.k = "num",
                         fresh |-> DOMAIN r.b.vars # DOMAIN bk.vars,
                         kept |-> \A n \in DOMAIN bk.vars : r.b.vars[n] = bk.vars[n],
                         layers |-> r.b.layers = bk.layers,
                         op_indices |-> r.b.op_indices = bk.op_indices])]
  /\ UNCHANGED notParse

InitBackend ==
  /\ bk = NewBackend
  /\ par = [ppc |-> "calls", log |-> <<>>]
  /\ sched = [cpc |-> "idle"]
  /\ vec = [vpc |-> "idle"]
  /\ cfg = <<>>
  /\ layers = <<>>
  /\ args = <<>>
  /\ pc = "idle"
  /\ err = "none"
  /\ eval_layers = <<>>
  /\ samp = NoneVal
  /\ it = 0
  /\ step = -1
  /\ li = 1
  /\ u = 0
  /\ thr = <<>>
  /\ ti = 1
  /\ trace = <<>>

NextBackend ==
  \/ AddVarCall
  \/ AddOpCall

SpecBackend == InitBackend /\ [][NextBackend]_vars

\* C16: every call of add_var registers its variable under a name that no
\* variable was registered under before, and leaves every variable that
\* was registered before in the registry.
C16_UniqueVarNames ==
  \A i \in 1..Len(par.log) :
    par.log[i].call = "add_var" => (par.log[i].fresh /\ par.log[i].kept)

MaxNet == 3

max_node_idx == 100000

\* the operator graphs nodes may carry
OpGraphs == {"A", "B"}

\* initial values of a node's state variable and values of an input column
NodeValues == {0, 1}

InputValues == {1, 2}

\* the networks: one operator graph and one initial value per node
Networks ==
  UNION {[types : [1..n -> OpGraphs], x0 : [1..n -> NodeValues]] : n \in 2..MaxNet}

\* the `inputs` argument of CircuitIR.run for a network of n nodes: nothing,
\* one column per node under the node name 'all', or one column for one node
InputSpecs(n) ==
  {[key |-> "none", node |-> 0, val |-> <<>>]}
    \cup [key : {"all"}, node : {0}, val : [1..n -> InputValues]]
    \cup [key : {"node"}, node : 1..n, val : [1..1 -> InputValues]]

\* the `while name_idx <= max_node_idx` loop: the first free vector_node index
RECURSIVE FreeName(_, _)
FreeName(name_idx, nodes) ==
  IF name_idx > max_node_idx THEN -1
  ELSE IF name_idx \in nodes THEN FreeName(name_idx + 1, nodes)
  ELSE name_idx

\* VectorizedNodeIR: the values of the collapsed nodes, in order of extension
VectorizedNodeIR(members, x0) == [j \in 1..Len(members) |-> x0[members[j]]]

\* val[:, i:i_new] of an array with one value per column
ColumnSlice(val, i, i_new) ==
  IF i >= i_new THEN <<>> ELSE SubSeq(val, i + 1, Min(i_new, Len(val)))

\* np.reshape(val, (sim_steps,) + var.shape) of an array of sim_steps rows
reshape(val, shape) ==
  IF Len(val) = shape THEN [err |-> "none", val |-> val]
  ELSE [err |-> "ValueError", val |-> <<>>]

\* the loop over self.nodes of the node-vectorized 'all' branch
RECURSIVE InputsAll(_, _, _, _, _)
InputsAll(nodes, members, val, i, inp_dict) ==
  IF nodes = <<>> THEN [err |-> "none", inp_dict |-> inp_dict]
  ELSE LET i_new == Len(members[Head(nodes)])
           r     == reshape(ColumnSlice(val, i, i_new), i_new)
       IN IF r.err # "none" THEN [err |-> r.err, inp_dict |-> inp_dict]
          ELSE InputsAll(Tail(nodes), members, val, i + i_new,
                         Put(inp_dict, Head(nodes), r.val))

\* the input part of CircuitIR.run in the node-vectorized case
VectorizedInputs(v) ==
  IF v.inputs.key = "none" THEN [err |-> "none", inp_dict |-> <<>>]
  ELSE IF v.inputs.key = "all"
    THEN InputsAll(v.nodes, v.members, v.inputs.val, 0, <<>>)
    ELSE LET node == v.label_map[v.inputs.node][1]
             r    == reshape(v.inputs.val, Len(v.members[node]))
         IN IF r.err # "none" THEN [err |-> r.err, inp_dict |-> <<>>]
            ELSE [err |-> "none", inp_dict |-> Put(<<>>, node, r.val)]

\* the input part of CircuitIR.run in the non-vectorized case: the value node k
\* is fed
PlainInput(inputs, k) ==
  IF inputs.key = "all" THEN inputs.val[k]
  ELSE IF inputs.key = "node" /\ inputs.node = k THEN inputs.val[1]
  ELSE 0

\* one Euler step of d/dt a = inp - a
EulerStep(a, inp, dt) == a + dt * (inp - a)

\* _get_op_attr of an original node: the element of the vector variable that
\* label_map points to (label_map indices start at 0)
get_var(v, k) == v.value[v.label_map[k][1]][v.label_map[k][2] + 1]

\* a batch index that is 0 for every member
BatchIndex_Zero(collapsed_node) == 0

\* len(collapsed_node) - 1: the batch index of the node that was added last
BatchIndex(collapsed_node) == Len(collapsed_node) - 1

\* one iteration of the loop of _vectorize_nodes_in_place
VectorizeNode ==
  /\ vec.vpc = "vectorize"
  /\ vec.i <= Len(vec.types)
  /\ LET op_graph == vec.types[vec.i]
     IN IF op_graph \in DOMAIN vec.node_op_graph_map
        THEN LET new_name == vec.node_op_graph_map[op_graph]
                 collapsed_node == Append(vec.members[new_name], vec.i)
             IN vec' = [vec EXCEPT
                          !.members = Put(@, new_name, collapsed_node),
                          !.label_map = Put(@, vec.i, <<new_name, BatchIndex(collapsed_node)>>),
                          !.i = @ + 1]
        ELSE LET new_name == FreeName(vec.name_idx, Range(vec.nodes))
             IN IF new_name < 0
                THEN vec' = [vec EXCEPT !.vpc = "failed", !.err = "PyRatesException"]
                ELSE vec' = [vec EXCEPT
                               !.name_idx = new_name,
                               !.nodes = Append(@, new_name),
                               !.members = Put(@, new_name, <<vec.i>>),
                               !.node_op_graph_map = Put(@, op_graph, new_name),
                               !.label_map = Put(@, vec.i, <<new_name, 0>>),
                               !.i = @ + 1]
  /\ UNCHANGED notVec

\* the end of optimize_graph_in_place and CircuitIR.compile: the old nodes are
\* removed and every vector node gets its vector-valued state variable
CompileVectorized ==
  /\ vec.vpc = "vectorize"
  /\ vec.i > Len(vec.types)
  /\ vec' = [vec EXCEPT
               !.vpc = "compiled",
               !.value = [g \in Range(vec.nodes) |->
                            VectorizedNodeIR(vec.members[g], vec.x0)]]
  /\ UNCHANGED notVec

\* CircuitIR.run up to the start of the simulation: the inputs are mapped to the
\* vector nodes
RunInputs ==
  /\ vec.vpc = "compiled"
  /\ LET r == VectorizedInputs(vec)
     IN vec' = [vec EXCEPT
                  !.vpc = IF r.err = "none" THEN "run" ELSE "failed",
                  !.err = r.err,
                  !.inp_dict = r.inp_dict]
  /\ UNCHANGED notVec

\* one step of the simulation: every element of every vector node advances
SimStep ==
  /\ vec.vpc = "run"
  /\ vec.n < MaxSteps
  /\ vec' = [vec EXCEPT
               !.n = @ + 1,
               !.value = [g \in DOMAIN vec.value |->
                            [j \in 1..Len(vec.value[g]) |->
                               EulerStep(vec.value[g][j],
                                         IF g \in DOMAIN vec.inp_dict
                                         THEN vec.inp_dict[g][j] ELSE 0,
                                         vec.dt)]],
               !.ref = [k \in 1..Len(vec.ref) |->
                          EulerStep(vec.ref[k], PlainInput(vec.inputs, k), vec.dt)]]
  /\ UNCHANGED notVec

InitVec ==
  /\ \E net \in Networks :
       \E inputs \in InputSpecs(Len(net.types)) :
         \E dt \in DtValues :
           vec = [vpc |-> "vectorize", types |-> net.types, x0 |-> net.x0,
                  inputs |-> inputs, dt |-> dt, i |-> 1, name_idx |-> 0,
                  nodes |-> <<>>, node_op_graph_map |-> <<>>, members |-> <<>>,
                  label_map |-> <<>>, value |-> <<>>, inp_dict |-> <<>>,
                  ref |-> net.x0, n |-> 0, err |-> "none"]
  /\ sched = [cpc |-> "idle"]
  /\ bk = [layer |-> 0]
  /\ par = [ppc |-> "idle"]
  /\ cfg = <<>>
  /\ layers = <<>>
  /\ args = <<>>
  /\ pc = "idle"
  /\ err = "none"
  /\ eval_layers = <<>>
  /\ samp = NoneVal
  /\ it = 0
  /\ step = -1
  /\ li = 1
  /\ u = 0
  /\ thr = <<>>
  /\ ti = 1
  /\ trace = <<>>

NextVec ==
  \/ VectorizeNode
  \/ CompileVectorized
  \/ RunInputs
  \/ SimStep

SpecVec == InitVec /\ [][NextVec]_vars

\* the network holds two or more nodes with the same operator graph
HasIdenticalNodes ==
  \E k1, k2 \in 1..Len(vec.types) : k1 # k2 /\ vec.types[k1] = vec.types[k2]

\* C2: for a network with two or more structurally identical nodes, the run of
\* the vectorized network does not fail and, at every step, the value read back
\* for every original node through label_map equals the value the node has in
\* the non-vectorized run on the same inputs.
C2_VectorizedRunEqualsPlainRun ==
  (vec.vpc \in {"run", "failed"} /\ HasIdenticalNodes) =>
    /\ vec.err = "none"
    /\ \A k \in 1..Len(vec.types) : get_var(vec, k) = vec.ref[k]

\* C18: after node vectorization label_map has exactly one entry for every
\* original node, no two nodes share a (vector node, batch index) pair, and
\* the batch indices of the members of a vector node are exactly 0..k-1.
C18_LabelMapBijection ==
  vec.vpc \in {"compiled", "run", "failed"} =>
    /\ DOMAIN vec.label_map = 1..Len(vec.types)
    /\ \A k1, k2 \in 1..Len(vec.types) :
         k1 # k2 => vec.label_map[k1] # vec.label_map[k2]
    /\ \A g \in Range(vec.nodes) :
         {vec.label_map[k][2] : k \in {j \in 1..Len(vec.types) : vec.label_map[j][1] = g}}
           = 0..(Len(vec.members[g]) - 1)

\* a network of two operator graphs was vectorized into two vector nodes, one
\* of them with two or more members
C18_Witness ==
  /\ vec.vpc = "compiled"
  /\ Len(vec.nodes) = 2
  /\ \E g \in Range(vec.nodes) : Len(vec.members[g]) >= 2

(***************************************************************************)
(* SpecGroup: Network.vectorize_nodes (pyrates/network/network.py) on a    *)
(* group of nodes with one operator argument each.  A shape is a tuple of  *)
(* dimensions; every dimension of an argument has the size DimSize.        *)
(***************************************************************************)
MaxRank == 3

DimSize == 2

ShapeOfRank(r) == [k \in 1..r |-> DimSize]

\* the groups: two to MaxNet nodes, the rank of the argument of each
Groups == UNION {[1..n -> 0..MaxRank] : n \in 2..MaxNet}

\* node_ref = nodes.pop() and the loop over the arguments of the new node
VectorizeReference ==
  /\ vec.vpc = "reference"
  /\ LET node_ref == Len(vec.ranks)
         shape    == ShapeOfRank(vec.ranks[node_ref])
     IN IF Len(shape) = 2
        THEN vec' = [vec EXCEPT !.vpc = "error", !.err = "ValueError"]
        ELSE vec' = [vec EXCEPT
                       !.vpc = "rest",
                       !.nodes = SubSeq([k \in 1..Len(vec.ranks) |-> k], 1, node_ref - 1),
                       !.arg_shapes = IF Len(shape) = 1 THEN shape ELSE <<1>>,
                       !.node_arg_map = Put(@, node_ref, 0)]
  /\ UNCHANGED notVec

\* one iteration of `for i, node_name in enumerate(nodes)`
VectorizeMember ==
  /\ vec.vpc = "rest"
  /\ vec.i < Len(vec.nodes)
  /\ LET node_name == vec.nodes[vec.i + 1]
         shape     == ShapeOfRank(vec.ranks[node_name])
     IN vec' = [vec EXCEPT
                  !.i = @ + 1,
                  !.arg_shapes = IF Len(shape) # 0 /\ shape[1] > vec.arg_shapes[1]
                                 THEN shape ELSE @,
                  !.node_arg_map = Put(@, node_name, vec.i + 1)]
  /\ UNCHANGED notVec

\* the new node gets the shape (n_nodes,) + arg_shapes[arg_name] and is added
\* to the new net config
AddVectorizedNode ==
  /\ vec.vpc = "rest"
  /\ vec.i = Len(vec.nodes)
  /\ vec' = [vec EXCEPT !.vpc = "added",
                        !.shape = <<Len(vec.ranks)>> \o vec.arg_shapes]
  /\ UNCHANGED notVec

InitGroup ==
  /\ \E ranks \in Groups :
       vec = [vpc |-> "reference", ranks |-> ranks, nodes |-> <<>>, i |-> 0,
              arg_shapes |-> <<>>, node_arg_map |-> <<>>, shape |-> <<>>,
              err |-> "none"]
  /\ sched = [cpc |-> "idle"]
  /\ bk = [layer |-> 0]
  /\ par = [ppc |-> "idle"]
  /\ cfg = <<>>
  /\ layers = <<>>
  /\ args = <<>>
  /\ pc = "idle"
  /\ err = "none"
  /\ eval_layers = <<>>
  /\ samp = NoneVal
  /\ it = 0
  /\ step = -1
  /\ li = 1
  /\ u = 0
  /\ thr = <<>>
  /\ ti = 1
  /\ trace = <<>>

NextGroup ==
  \/ VectorizeReference
  \/ VectorizeMember
  \/ AddVectorizedNode

SpecGroup == InitGroup /\ [][NextGroup]_vars

\* C19: for a group in which some node has an argument of rank 2 or higher,
\* vectorize_nodes raises an error; it never adds a vectorized node.
C19_HighRankRejected ==
  (\E k \in 1..Len(vec.ranks) : vec.ranks[k] >= 2) =>
    /\ vec.vpc # "added"
    /\ vec.vpc \notin {"reference", "rest"} => vec.err = "ValueError"

\* ---------------------------------------------------------------------------
\* SpecCollect: the inputs of one operator are collected from its source
\* operators, either by CircuitIR._collect_ops / _map_multiple_inputs followed
\* by the resolution of the 'inputs' mapping, or by Network.add_node.
\* ---------------------------------------------------------------------------

MaxSources == 3

InVarNames == {<<"x">>, <<"x", "1">>, <<"y">>}

\* Source j is the operator j of the node; its output variable is in_var and
\* the variable exists on the node (defined) with the value j, or is missing.
SourceLists ==
  UNION {[1..n -> [in_var : InVarNames, defined : BOOLEAN]] : n \in 1..MaxSources}

SourceKey(srcs, j) == <<j, srcs[j].in_var>>

SourceValue(srcs, j) == j

RECURSIVE SumSeq(_)
SumSeq(xs) == IF xs = <<>> THEN 0 ELSE Head(xs) + SumSeq(Tail(xs))

NextAlias(inp, i) ==
  IF Len(inp) >= 2 /\ inp[Len(inp)] = NumStr(i - 1)
  THEN SubSeq(inp, 1, Len(inp) - 1) \o <<NumStr(i)>>
  ELSE inp \o <<NumStr(i)>>

RECURSIVE UniqueAlias(_, _, _)
UniqueAlias(inp, i, inputs_unique) ==
  IF inp \in Range(inputs_unique)
  THEN UniqueAlias(NextAlias(inp, i + 1), i + 1, inputs_unique)
  ELSE inp

RECURSIVE MapLoop(_, _, _, _)
MapLoop(inputs, k, inputs_unique, input_mapping) ==
  IF k > Len(inputs) THEN [names |-> inputs_unique, mapping |-> input_mapping]
  ELSE LET inp == UniqueAlias(inputs[k].key[2], 0, inputs_unique)
       IN MapLoop(inputs, k + 1, Append(inputs_unique, inp),
                  [a \in DOMAIN input_mapping \cup {inp} |->
                     IF a = inp THEN inputs[k].key ELSE input_mapping[a]])

_map_multiple_inputs_NoAlias(inputs, reduce_dim) ==
  LET names == [k \in 1..Len(inputs) |-> inputs[k].key[2]]
      last(a) == CHOOSE k \in 1..Len(inputs) :
                   /\ names[k] = a
                   /\ \A j \in (k + 1)..Len(inputs) : names[j] # a
  IN [expr |-> IF reduce_dim THEN "sum" ELSE "stack",
      names |-> names,
      mapping |-> [a \in Range(names) |-> inputs[last(a)].key]]

_map_multiple_inputs(inputs, reduce_dim) ==
  LET m == MapLoop(inputs, 1, <<>>, <<>>)
  IN [expr |-> IF reduce_dim THEN "sum" ELSE "stack",
      names |-> m.names, mapping |-> m.mapping]

SingleInput(inputs) ==
  [expr |-> "var", names |-> <<inputs[1].key[2]>>,
   mapping |-> [a \in {inputs[1].key[2]} |-> inputs[1].key]]

\* The stacked form reads the shape of the first input that has one; None has
\* none, and the search runs past the end of the list when no input has one.
NoShapeFound(inputs, reduce_dim) ==
  /\ Len(inputs) > 1
  /\ ~reduce_dim
  /\ \A k \in 1..Len(inputs) : inputs[k].val = NoneVal

\* One pass of the loop over inp['sources'] in _collect_ops: a missing
\* variable is recorded with the value None.
CollectSource ==
  /\ sched.cpc = "collect"
  /\ sched.route = "circuit"
  /\ sched.i <= Len(sched.sources)
  /\ LET srcs == sched.sources
         j == sched.i
         in_val == IF srcs[j].defined THEN SourceValue(srcs, j) ELSE NoneVal
     IN sched' = [sched EXCEPT
          !.in_ops_col = Append(@, [key |-> SourceKey(srcs, j), val |-> in_val]),
          !.i = j + 1]
  /\ UNCHANGED notSched

MapInputs ==
  /\ sched.cpc = "collect"
  /\ sched.route = "circuit"
  /\ sched.i > Len(sched.sources)
  /\ LET reduce_inputs == sched.reduce_dim
         inp == IF Len(sched.in_ops_col) > 1
                THEN _map_multiple_inputs(sched.in_ops_col, reduce_inputs)
                ELSE SingleInput(sched.in_ops_col)
     IN IF NoShapeFound(sched.in_ops_col, reduce_inputs)
        THEN sched' = [sched EXCEPT !.cpc = "error", !.err = "IndexError"]
        ELSE sched' = [sched EXCEPT !.cpc = "resolve", !.in_ops = inp]
  /\ UNCHANGED notSched

\* The 'inputs' mapping of the operator is resolved against the variables of
\* the node: every alias is bound to the variable stored under its key.
ResolveInputs ==
  /\ sched.cpc = "resolve"
  /\ LET srcs == sched.sources
         m == sched.in_ops.mapping
         missing == {a \in DOMAIN m : ~srcs[m[a][1]].defined}
     IN IF missing # {}
        THEN sched' = [sched EXCEPT !.cpc = "error", !.err = "KeyError"]
        ELSE sched' = [sched EXCEPT
               !.cpc = "eval",
               !.bound = [a \in DOMAIN m |-> SourceValue(srcs, m[a][1])]]
  /\ UNCHANGED notSched

InputValue(expr, vals) ==
  IF expr = "sum" THEN <<SumSeq(vals)>>
  ELSE vals

EvaluateInput ==
  /\ sched.cpc = "eval"
  /\ LET names == sched.in_ops.names
         vals == [k \in 1..Len(names) |->
                    IF names[k] \in DOMAIN sched.bound THEN sched.bound[names[k]]
                    ELSE 0]
     IN sched' = [sched EXCEPT !.cpc = "done",
                               !.result = InputValue(sched.in_ops.expr, vals)]
  /\ UNCHANGED notSched

DependencyFound_Always(srcs, j) == TRUE

DependencyFound(srcs, j) == srcs[j].defined

\* One pass of the loop over inp['sources'] in Network.add_node.
NetworkCollect ==
  /\ sched.cpc = "collect"
  /\ sched.route = "network"
  /\ sched.i <= Len(sched.sources)
  /\ LET srcs == sched.sources
         j == sched.i
     IN IF ~DependencyFound(srcs, j)
        THEN sched' = [sched EXCEPT !.cpc = "error", !.err = "ValueError"]
        ELSE sched' = [sched EXCEPT
               !.in_ops_col = Append(@, [key |-> SourceKey(srcs, j),
                                         val |-> SourceValue(srcs, j)]),
               !.i = j + 1]
  /\ UNCHANGED notSched

NetworkReduce ==
  /\ sched.cpc = "collect"
  /\ sched.route = "network"
  /\ sched.i > Len(sched.sources)
  /\ LET out_vars == [k \in 1..Len(sched.in_ops_col) |-> sched.in_ops_col[k].val]
         expr == IF Len(out_vars) > 1 /\ sched.reduce_dim THEN "sum" ELSE "stack"
     IN sched' = [sched EXCEPT !.cpc = "done",
                               !.result = InputValue(expr, out_vars)]
  /\ UNCHANGED notSched

InitCollect ==
  /\ \E srcs \in SourceLists, rd \in BOOLEAN, r \in {"circuit", "network"} :
       sched = [cpc |-> "collect", route |-> r, sources |-> srcs,
                reduce_dim |-> rd, i |-> 1, in_ops_col |-> <<>>,
                in_ops |-> [expr |-> "none", names |-> <<>>, mapping |-> <<>>],
                bound |-> <<>>, result |-> <<>>, err |-> "none"]
  /\ bk = [layer |-> 0]
  /\ par = [ppc |-> "idle"]
  /\ vec = [vpc |-> "idle"]
  /\ cfg = <<>>
  /\ layers = <<>>
  /\ args = <<>>
  /\ pc = "idle"
  /\ err = "none"
  /\ eval_layers = <<>>
  /\ samp = NoneVal
  /\ it = 0
  /\ step = -1
  /\ li = 1
  /\ u = 0
  /\ thr = <<>>
  /\ ti = 1
  /\ trace = <<>>

NextCollect ==
  \/ CollectSource
  \/ MapInputs
  \/ ResolveInputs
  \/ EvaluateInput
  \/ NetworkCollect
  \/ NetworkReduce

SpecCollect == InitCollect /\ [][NextCollect]_vars

HasDangling == \E j \in 1..Len(sched.sources) : ~sched.sources[j].defined

MaxEqLen == 4

\* str.find: the first position (from 1) at which pat occurs in s, 0 if none
Find(s, pat) ==
  LET hits == {k \in 1..(Len(s) - Len(pat) + 1) : SubSeq(s, k, k + Len(pat) - 1) = pat}
  IN IF hits = {} THEN 0 ELSE CHOOSE k \in hits : \A j \in hits : k <= j

Contains(s, pat) == Find(s, pat) # 0

\* str.split(pat, maxsplit=1) for a string that contains pat
SplitOnce(s, pat) ==
  LET k == Find(s, pat)
  IN <<SubSeq(s, 1, k - 1), SubSeq(s, k + Len(pat), Len(s))>>

\* str.replace(pat, '')
RECURSIVE Remove(_, _)
Remove(s, pat) ==
  LET k == Find(s, pat)
  IN IF k = 0 THEN s
     ELSE SubSeq(s, 1, k - 1) \o Remove(SubSeq(s, k + Len(pat), Len(s)), pat)

assign_types == <<<<"+", "=">>, <<"-", "=">>, <<"*", "=">>, <<"/", "=">>>>

not_assign_types == <<<<"<", "=">>, <<">", "=">>, <<"=", "=">>, <<"!", "=">>>>

\* the split around an assignment sign found in expr, one adjacent blank on
\* either side taken with it
SplitAround(expr, assign_type) ==
  IF Contains(expr, <<" ">> \o assign_type \o <<" ">>)
  THEN SplitOnce(expr, <<" ">> \o assign_type \o <<" ">>)
  ELSE IF Contains(expr, <<" ">> \o assign_type)
  THEN SplitOnce(expr, <<" ">> \o assign_type)
  ELSE IF Contains(expr, assign_type \o <<" ">>)
  THEN SplitOnce(expr, assign_type \o <<" ">>)
  ELSE SplitOnce(expr, assign_type)

IsAssign(expr) ==
  \A k \in 1..Len(not_assign_types) :
    Contains(expr, not_assign_types[k]) =>
      Contains(Remove(expr, not_assign_types[k]), <<"=">>)

RECURSIVE SplitLoop(_, _)
SplitLoop(expr, k) ==
  IF k > Len(assign_types)
  THEN [lhs |-> <<>>, rhs |-> <<>>, assign_type |-> <<>>, err |-> "UnboundLocalError"]
  ELSE IF Contains(expr, assign_types[k])
  THEN LET sp == SplitAround(expr, assign_types[k])
       IN [lhs |-> sp[1], rhs |-> sp[2], assign_type |-> assign_types[k], err |-> "none"]
  ELSE IF Contains(expr, <<"=">>) /\ IsAssign(expr)
  THEN LET sp == SplitAround(expr, <<"=">>)
       IN [lhs |-> sp[1], rhs |-> sp[2], assign_type |-> <<"=">>, err |-> "none"]
  ELSE SplitLoop(expr, k + 1)

split_equation(expr) == SplitLoop(expr, 1)

allowed_follow_ops ==
  {"+", "=", "*", "/", "^", "<", ">", "!", ".", "%", "@", "[", "]", "(", ")", ":", ",", " "}

RECURSIVE replace(_, _, _)
replace(eq, term, replacement) ==
  LET idx == Find(eq, term)
      idx_follow_op == idx + Len(term)
      rest == SubSeq(eq, idx_follow_op, Len(eq))
  IN IF idx = 0 THEN eq
     ELSE IF idx_follow_op = Len(eq) + 1 \/ eq[idx_follow_op] \in allowed_follow_ops
     THEN SubSeq(eq, 1, idx - 1) \o <<" ">> \o replacement
            \o replace(rest, term, replacement)
     ELSE SubSeq(eq, 1, idx_follow_op - 1) \o replace(rest, term, replacement)

\* equations `lhs OP rhs` with and without a blank on either side of OP
Blank(b) == IF b THEN <<" ">> ELSE <<>>

SplitInputs ==
  [lhs : {<<"a">>, <<"a", "x">>},
   op : Range(assign_types) \cup {<<"=">>},
   rhs : {<<"x">>, <<"x", "+", "a">>, <<"a", "*", "x">>},
   before : BOOLEAN, after : BOOLEAN]

EquationText(in) == in.lhs \o Blank(in.before) \o in.op \o Blank(in.after) \o in.rhs

EqChars == {"a", "x", "+", " "}

ReplaceInputs ==
  UNION {[1..n -> EqChars] : n \in 1..MaxEqLen}

SplitEquation ==
  /\ par.ppc = "split"
  /\ par' = [par EXCEPT !.ppc = "done", !.res = split_equation(EquationText(par.in))]
  /\ UNCHANGED notParse
  /\ UNCHANGED bk

ReplaceTerm ==
  /\ par.ppc = "replace"
  /\ par' = [par EXCEPT !.ppc = "done", !.res = replace(par.in, par.term, par.replacement)]
  /\ UNCHANGED notParse
  /\ UNCHANGED bk

InitText ==
  /\ \/ \E in \in SplitInputs :
          par = [ppc |-> "split", fn |-> "split_equation", in |-> in, res |-> <<>>]
     \/ \E eq \in ReplaceInputs :
          par = [ppc |-> "replace", fn |-> "replace", in |-> eq, term |-> <<"x">>,
                 replacement |-> <<"y">>, res |-> <<>>]
  /\ bk = [layer |-> 0]
  /\ sched = [cpc |-> "idle"]
  /\ vec = [vpc |-> "idle"]
  /\ cfg = <<>>
  /\ layers = <<>>
  /\ args = <<>>
  /\ pc = "idle"
  /\ err = "none"
  /\ eval_layers = <<>>
  /\ samp = NoneVal
  /\ it = 0
  /\ step = -1
  /\ li = 1
  /\ u = 0
  /\ thr = <<>>
  /\ ti = 1
  /\ trace = <<>>

NextText ==
  \/ SplitEquation
  \/ ReplaceTerm

SpecText == InitText /\ [][NextText]_vars

\* C21: split_equation applied to `lhs OP rhs`, OP one of += -= *= /= =,
\* returns OP as the assignment type, the text before OP as left-hand side and
\* the text after OP as right-hand side.
C21_SplitReturnsOperator ==
  (par.ppc = "done" /\ par.fn = "split_equation") =>
    /\ par.res.err = "none"
    /\ par.res.assign_type = par.in.op
    /\ par.res.lhs = par.in.lhs
    /\ par.res.rhs = par.in.rhs

\* the identifiers and signs of a string, blanks only separating them
IdentChars == {"a", "x", "y"}

RECURSIVE Tokens(_, _)
Tokens(s, cur) ==
  IF s = <<>> THEN (IF cur = <<>> THEN <<>> ELSE <<cur>>)
  ELSE IF Head(s) \in IdentChars THEN Tokens(Tail(s), Append(cur, Head(s)))
  ELSE (IF cur = <<>> THEN <<>> ELSE <<cur>>)
         \o (IF Head(s) = " " THEN <<>> ELSE <<<<Head(s)>>>>)
         \o Tokens(Tail(s), <<>>)

WholeTokenReplace(eq, term, replacement) ==
  LET toks == Tokens(eq, <<>>)
  IN [k \in 1..Len(toks) |-> IF toks[k] = term THEN replacement ELSE toks[k]]

\* C28: replace substitutes only the occurrences of term that are a whole
\* identifier; an occurrence inside a longer identifier, the extra characters
\* before or after it, is left as it is.
C28_ReplaceWholeIdentifiers ==
  (par.ppc = "done" /\ par.fn = "replace") =>
    Tokens(par.res, <<>>) = WholeTokenReplace(par.in, par.term, par.replacement)

\* ---------------------------------------------------------------------------
\* SpecLayers: a NumpyBackend with one state variable x that receives layer
\* cursor calls and add_op calls in any order; par.before is the backend as
\* it was before the last call.
\* ---------------------------------------------------------------------------

MaxLayerCalls == 4

CursorCalls ==
  {"add_layer", "add_layer_to_beginning", "next_layer", "previous_layers",
   "top_layer", "bottom_layer"}

CursorResult(b, call) ==
  CASE call = "add_layer"              -> add_layer(b, FALSE)
    [] call = "add_layer_to_beginning" -> add_layer(b, TRUE)
    [] call = "next_layer"             -> next_layer(b)
    [] call = "previous_layers"        -> previous_layers(b)
    [] call = "top_layer"              -> top_layer(b)
    [] call = "bottom_layer"           -> bottom_layer(b)

CursorCall ==
  /\ par.ppc = "layers"
  /\ par.n < MaxLayerCalls
  /\ \E call \in CursorCalls :
       /\ bk' = CursorResult(bk, call)
       /\ par' = [par EXCEPT !.n = @ + 1, !.call = call, !.before = bk]
  /\ UNCHANGED notParse

\* self.layers[idx_1][idx_2] exists
SlotExists(b, idx) ==
  /\ idx[1] + 1 \in 1..Len(b.layers)
  /\ idx[2] + 1 \in 1..Len(b.layers[idx[1] + 1])

\* add_op for a sum or a product of x or of an operation add_op has
\* returned; the assignment to a slot that does not exist raises IndexError
LayerAddOp ==
  /\ par.ppc = "layers"
  /\ par.n < MaxLayerCalls
  /\ \E key \in {"+", "*"}, x \in {VarRef(<<"x">>)} \cup Range(bk.ops) :
       LET input_ops == InputOps(<<x, Num(3)>>)
           base == CounterName(key)
       IN IF \A i \in 1..Len(input_ops) : SlotExists(bk, bk.op_indices[input_ops[i]])
          THEN /\ bk' = add_op(bk, key, <<x, Num(3)>>).b
               /\ par' = [par EXCEPT !.n = @ + 1, !.call = "add_op", !.before = bk]
          ELSE /\ bk' = [bk EXCEPT !.op_counter =
                           Put(@, base, IF base \in DOMAIN @ THEN @[base] + 1 ELSE 1)]
               /\ par' = [par EXCEPT !.ppc = "error", !.err = "IndexError",
                                     !.n = @ + 1, !.call = "add_op", !.before = bk]
  /\ UNCHANGED notParse

InitLayers ==
  /\ bk = add_var(NewBackend, "state_var", <<"x">>, 0, 1).b
  /\ par = [ppc |-> "layers", n |-> 0, call |-> "none", before |-> NewBackend,
            err |-> "none"]
  /\ sched = [cpc |-> "idle"]
  /\ vec = [vpc |-> "idle"]
  /\ cfg = <<>>
  /\ layers = <<>>
  /\ args = <<>>
  /\ pc = "idle"
  /\ err = "none"
  /\ eval_layers = <<>>
  /\ samp = NoneVal
  /\ it = 0
  /\ step = -1
  /\ li = 1
  /\ u = 0
  /\ thr = <<>>
  /\ ti = 1
  /\ trace = <<>>

NextLayers ==
  \/ CursorCall
  \/ LayerAddOp

SpecLayers == InitLayers /\ [][NextLayers]_vars

\* the operation op_indices[name] was written for: the last one of that name
LastOfName(b, name) ==
  CHOOSE id \in 1..Len(b.ops) :
    /\ b.ops[id].name = name
    /\ \A j \in (id + 1)..Len(b.ops) : b.ops[j].name # name

\* C22: the (layer, position) op_indices holds for an operation is the slot
\* that holds the operation as long as it has not been consumed, whatever
\* add_op and cursor calls were made, so that consuming an operation nulls
\* its own slot: no nulling fails and none empties the slot of an operation
\* that was not consumed.
C22_OpIndicesPointAtOp ==
  /\ \A name \in DOMAIN bk.op_indices :
       LET id == LastOfName(bk, name)
       IN id \notin ConsumedOps(bk) =>
            /\ SlotExists(bk, bk.op_indices[name])
            /\ bk.layers[bk.op_indices[name][1] + 1][bk.op_indices[name][2] + 1] = id
  /\ par.err # "IndexError"

\* C29: the layer cursor always designates an existing layer; next_layer
\* appends an empty layer exactly when the cursor is on the last layer and
\* moves the cursor one layer on, previous_layers inserts an empty layer at
\* position 0 exactly when the cursor is at 0 and otherwise moves it back.
C29_CursorInRange ==
  /\ bk.layer \in 0..(Len(bk.layers) - 1)
  /\ par.call = "next_layer" =>
       /\ bk.layer = par.before.layer + 1
       /\ IF par.before.layer = Len(par.before.layers) - 1
          THEN bk.layers = Append(par.before.layers, <<>>)
          ELSE bk.layers = par.before.layers
  /\ par.call = "previous_layers" =>
       IF par.before.layer = 0
       THEN bk.layers = << <<>> >> \o par.before.layers /\ bk.layer = 0
       ELSE bk.layers = par.before.layers /\ bk.layer = par.before.layer - 1

\* previous_layers was called with the cursor at 0 on a backend of several
\* layers, one of them holding an operation
C29_Witness ==
  /\ par.call = "previous_layers"
  /\ par.before.layer = 0
  /\ Len(par.before.layers) >= 2
  /\ LiveOps(par.before) # {}
  /\ Len(bk.layers) = Len(par.before.layers) + 1

\* ---------------------------------------------------------------------------
\* SpecCollector: the last stage of Network.vectorize.  Every input variable
\* of the node gets a collector variable in_col_i, and the equation of every
\* edge that feeds the variable is rewritten to write one column of it.
\* ---------------------------------------------------------------------------

MaxEdges == 4

MaxInputVars == 2

\* the entry of node['inputs'] for a target variable, as the first loop of
\* the stage builds it from the edges: one source and one delay per edge
InputEntry(n) ==
  [sources |-> [j \in 1..n |-> j], delays |-> [j \in 1..n |-> 0], reduce_dim |-> TRUE]

\* out_shape of the target variable: 0 stands for (), k > 0 for (k,)
OutShapes == {0, 1, 2}

NodeInputs ==
  UNION {[1..m -> [n : 1..MaxEdges, out_shape : OutShapes]] : m \in 1..MaxInputVars}

\* len(inputs) of the dictionary `inputs`
DictLen(inputs) == Cardinality(DOMAIN inputs)

\* `if len(inputs) > 1:` and the operator_args entry of in_col_i
AddCollector ==
  /\ vec.vpc = "input"
  /\ vec.i <= Len(vec.inputs)
  /\ LET inputs == InputEntry(vec.inputs[vec.i].n)
         out_shape == vec.inputs[vec.i].out_shape
     IN IF DictLen(inputs) > 1
        THEN vec' = [vec EXCEPT
               !.vpc = "edges", !.j = 0,
               !.in_col = Append(@, [i |-> vec.i - 1,
                   shape |-> <<IF out_shape # 0 THEN out_shape ELSE 1, DictLen(inputs)>>])]
        ELSE vec' = [vec EXCEPT !.i = @ + 1]
  /\ UNCHANGED notVec

\* one pass of `for j, inp in enumerate(inputs['sources']):` the left-hand
\* side of the edge equation becomes in_col_i[:,j:j+1]
AdjustEdge ==
  /\ vec.vpc = "edges"
  /\ LET inputs == InputEntry(vec.inputs[vec.i].n)
     IN IF vec.j < Len(inputs.sources)
        THEN vec' = [vec EXCEPT
               !.writes = Append(@, [i |-> vec.i - 1, edge |-> inputs.sources[vec.j + 1],
                                     from |-> vec.j, to |-> vec.j + 1]),
               !.j = @ + 1]
        ELSE vec' = [vec EXCEPT !.vpc = "input", !.i = @ + 1]
  /\ UNCHANGED notVec

InitCollector ==
  /\ \E ins \in NodeInputs :
       vec = [vpc |-> "input", inputs |-> ins, i |-> 1, j |-> 0,
              in_col |-> <<>>, writes |-> <<>>]
  /\ sched = [cpc |-> "idle"]
  /\ bk = [layer |-> 0]
  /\ par = [ppc |-> "idle"]
  /\ cfg = <<>>
  /\ layers = <<>>
  /\ args = <<>>
  /\ pc = "idle"
  /\ err = "none"
  /\ eval_layers = <<>>
  /\ samp = NoneVal
  /\ it = 0
  /\ step = -1
  /\ li = 1
  /\ u = 0
  /\ thr = <<>>
  /\ ti = 1
  /\ trace = <<>>

NextCollector ==
  \/ AddCollector
  \/ AdjustEdge

SpecCollector == InitCollector /\ [][NextCollector]_vars

\* C26: for a target variable fed by N > 1 edges the collector in_col_i has
\* exactly N columns, the j-th edge writes column j only, no two edges write
\* the same column and no edge writes a column the collector does not have.
C26_CollectorColumns ==
  \A k \in 1..Len(vec.in_col) :
    LET c == vec.in_col[k]
        n == vec.inputs[c.i + 1].n
        ws == SelectSeq(vec.writes, LAMBDA w : w.i = c.i)
    IN n > 1 =>
         /\ c.shape[2] = n
         /\ \A a \in 1..Len(ws) :
              /\ ws[a].from = a - 1 /\ ws[a].to = a
              /\ ws[a].to <= c.shape[2]
         /\ \A a, b \in 1..Len(ws) : a # b => ws[a].from # ws[b].from

\* ---------------------------------------------------------------------------
\* SpecEdges: CircuitIR._vectorize_edges for the edges between two vector
\* nodes.  Edge k of the list connects the k-th original pair of nodes:
\* source_idx = target_idx = [k - 1], weight 10 + k and delay 20 + k where
\* the edge has one, None where it has none.
\* ---------------------------------------------------------------------------

MaxParallel == 3

EdgeVars == {"a", "b"}

EdgeData(k, var, has_weight, has_delay) ==
  [source_var |-> var, target_var |-> "in",
   weight |-> IF has_weight THEN 10 + k ELSE NoneVal,
   delay |-> IF has_delay THEN 20 + k ELSE NoneVal,
   source_idx |-> <<k - 1>>, target_idx |-> <<k - 1>>]

EdgeLists ==
  UNION {{[k \in 1..n |-> EdgeData(k, f[k].var, f[k].w, f[k].d)] :
            f \in [1..n -> [var : EdgeVars, w : BOOLEAN, d : BOOLEAN]]}
         : n \in 1..MaxParallel}

\* a collector list of the loop over edges_tmp: an entry is appended only
\* for an edge whose attribute is not None
NotNoneCol(data, edges_tmp, attr) ==
  LET ks == SelectSeq(edges_tmp, LAMBDA k : data[k][attr] # NoneVal)
  IN [i \in 1..Len(ks) |-> data[ks[i]][attr]]

\* `col if col else None`
ListOrNone(col) == [is_none |-> col = <<>>, list |-> col]

IdxCol(data, edges_tmp, attr) ==
  Flatten([i \in 1..Len(edges_tmp) |-> data[edges_tmp[i]][attr]])

\* one pass of `while edges:` the edges with the variables of edges[0] are
\* merged into one edge and taken from the list
VectorizeEdgeGroup ==
  /\ vec.vpc = "edges"
  /\ vec.edges # <<>>
  /\ LET data == vec.data
         first == data[vec.edges[1]]
         edges_tmp == SelectSeq(vec.edges, LAMBDA k :
                        /\ data[k].source_var = first.source_var
                        /\ data[k].target_var = first.target_var)
         delay_col == NotNoneCol(data, edges_tmp, "delay")
         weight_col == NotNoneCol(data, edges_tmp, "weight")
         new_edge == [source_var |-> first.source_var, target_var |-> first.target_var,
                      delay |-> ListOrNone(delay_col),
                      weight |-> ListOrNone(weight_col),
                      source_idx |-> IdxCol(data, edges_tmp, "source_idx"),
                      target_idx |-> IdxCol(data, edges_tmp, "target_idx"),
                      merged |-> edges_tmp]
     IN vec' = [vec EXCEPT
          !.graph = Append(@, new_edge),
          !.edges = SelectSeq(@, LAMBDA k : k \notin Range(edges_tmp))]
  /\ UNCHANGED notVec

VectorizeEdgesReturn ==
  /\ vec.vpc = "edges"
  /\ vec.edges = <<>>
  /\ vec' = [vec EXCEPT !.vpc = "done"]
  /\ UNCHANGED notVec

InitEdges ==
  /\ \E data \in EdgeLists :
       vec = [vpc |-> "edges", data |-> data, edges |-> [k \in 1..Len(data) |-> k],
              graph |-> <<>>]
  /\ sched = [cpc |-> "idle"]
  /\ bk = [layer |-> 0]
  /\ par = [ppc |-> "idle"]
  /\ cfg = <<>>
  /\ layers = <<>>
  /\ args = <<>>
  /\ pc = "idle"
  /\ err = "none"
  /\ eval_layers = <<>>
  /\ samp = NoneVal
  /\ it = 0
  /\ step = -1
  /\ li = 1
  /\ u = 0
  /\ thr = <<>>
  /\ ti = 1
  /\ trace = <<>>

NextEdges ==
  \/ VectorizeEdgeGroup
  \/ VectorizeEdgesReturn

SpecEdges == InitEdges /\ [][NextEdges]_vars

\* the list holds the attribute of the i-th merged edge at position i; a
\* group in which no edge has the attribute keeps None
AlignedWith(col, data, merged, attr) ==
  IF \A i \in 1..Len(merged) : data[merged[i]][attr] = NoneVal
  THEN col.is_none
  ELSE /\ ~col.is_none
       /\ Len(col.list) = Len(merged)
       /\ \A i \in 1..Len(merged) : col.list[i] = data[merged[i]][attr]

\* C27: in a vectorized edge the weight, delay, source_idx and target_idx
\* lists have one entry per merged edge, in the order of the edges, so that
\* entry i of every list belongs to the same original edge.
C27_EdgeListsAligned ==
  \A g \in 1..Len(vec.graph) :
    LET e == vec.graph[g]
    IN /\ AlignedWith(e.weight, vec.data, e.merged, "weight")
       /\ AlignedWith(e.delay, vec.data, e.merged, "delay")
       /\ Len(e.source_idx) = Len(e.merged)
       /\ Len(e.target_idx) = Len(e.merged)
       /\ \A i \in 1..Len(e.merged) :
            /\ e.source_idx[i] = vec.data[e.merged[i]].source_idx[1]
            /\ e.target_idx[i] = vec.data[e.merged[i]].target_idx[1]

\* ---------------------------------------------------------------------------
\* SpecGrid: the worker threads of cluster_grid_search.  Every thread runs
\* the scheduler loop of thread_master on the shared param_grid; par.status
\* is the 'status' column, par.lock the thread that holds the lock (0: free),
\* par.sent the remote commands dispatched so far.
\* ---------------------------------------------------------------------------

MaxRows == 3

NumThreads == 2

Threads == 1..NumThreads

\* param_grid.loc[param_grid['status'] == 'unsolved'].index[:num_params],
\* num_params = 1
UnsolvedIndex(status) ==
  LET unsolved == {r \in 1..Len(status) : status[r] = "unsolved"}
  IN IF unsolved = {} THEN {} ELSE {CHOOSE r \in unsolved : \A q \in unsolved : r <= q}

fetch_param_idx(status, set_status) ==
  LET param_idx == UnsolvedIndex(status)
  IN [idx |-> param_idx,
      status |-> IF set_status
                 THEN [r \in 1..Len(status) |->
                         IF r \in param_idx THEN "pending" ELSE status[r]]
                 ELSE status]

\* while not fetch_param_idx(param_grid, set_status=False).empty:
LoopTest(t) ==
  /\ par.tpc[t] = "test"
  /\ par' = [par EXCEPT !.tpc[t] =
               IF fetch_param_idx(par.status, FALSE).idx = {} THEN "done" ELSE "acquire"]

\* lock.acquire()
LockAcquire(t) ==
  /\ par.tpc[t] = "acquire"
  /\ par.lock = 0
  /\ par' = [par EXCEPT !.lock = t, !.tpc[t] = "fetch"]

\* param_idx = fetch_param_idx(param_grid); param_grid_arg = param_grid.iloc[param_idx]
FetchIndex(t) ==
  /\ par.tpc[t] = "fetch"
  /\ LET r == fetch_param_idx(par.status, TRUE)
     IN par' = [par EXCEPT !.status = r.status, !.tpc[t] = "exec",
                           !.param_idx[t] = r.idx,
                           !.fetched[t] = {q \in r.idx : par.status[q] = "unsolved"}]

\* client.exec_command(command + param_grid_arg ...)
ExecCommand(t) ==
  /\ par.tpc[t] = "exec"
  /\ par' = [par EXCEPT !.tpc[t] = "release",
                        !.sent = Append(@, [thread |-> t, rows |-> par.param_idx[t],
                                            unsolved |-> par.fetched[t]])]

\* lock.release()
LockRelease(t) ==
  /\ par.tpc[t] = "release"
  /\ par' = [par EXCEPT !.lock = 0, !.tpc[t] = "wait"]

\* stdout.channel.recv_exit_status() returns and the loop goes round
RemoteDone(t) ==
  /\ par.tpc[t] = "wait"
  /\ par' = [par EXCEPT !.tpc[t] = "test"]

InitGrid ==
  /\ \E n \in 1..MaxRows :
       par = [ppc |-> "grid", status |-> [r \in 1..n |-> "unsolved"],
              tpc |-> [t \in Threads |-> "test"], lock |-> 0,
              param_idx |-> [t \in Threads |-> {}],
              fetched |-> [t \in Threads |-> {}], sent |-> <<>>]
  /\ bk = [layer |-> 0]
  /\ sched = [cpc |-> "idle"]
  /\ vec = [vpc |-> "idle"]
  /\ cfg = <<>>
  /\ layers = <<>>
  /\ args = <<>>
  /\ pc = "idle"
  /\ err = "none"
  /\ eval_layers = <<>>
  /\ samp = NoneVal
  /\ it = 0
  /\ step = -1
  /\ li = 1
  /\ u = 0
  /\ thr = <<>>
  /\ ti = 1
  /\ trace = <<>>

NextGrid ==
  /\ \E t \in Threads :
       \/ LoopTest(t)
       \/ LockAcquire(t)
       \/ FetchIndex(t)
       \/ ExecCommand(t)
       \/ LockRelease(t)
       \/ RemoteDone(t)
  /\ UNCHANGED notParse
  /\ UNCHANGED bk

SpecGrid == InitGrid /\ [][NextGrid]_vars

\* C30: every remote command a thread dispatches is for exactly one row of
\* the grid, a row that was 'unsolved' when it was fetched and that no other
\* command is for; no command is dispatched for an empty selection.
C30_OneUnsolvedRowPerCommand ==
  /\ \A k \in 1..Len(par.sent) :
       /\ Cardinality(par.sent[k].rows) = 1
       /\ par.sent[k].unsolved = par.sent[k].rows
  /\ \A j, k \in 1..Len(par.sent) :
       j # k => par.sent[j].rows \cap par.sent[k].rows = {}

====
